---- MODULE Spec2Model ----
(***************************************************************************)
(* Model of the Atlassian toolkit's request executor (atlassianRequest),   *)
(* its attachment upload (uploadAttachment), its conflict-recovering       *)
(* creators (createSpace, createProject) and its tree walks                *)
(* (buildPageTree, createIssueTree), run once or twice on a forest.        *)
(*                                                                         *)
(* One logical thread of control runs one top-level operation `op`.  Every *)
(* HTTP exchange goes through the request executor `req`; `net` is the log *)
(* of the network requests issued, each completed with the answer it got.  *)
(***************************************************************************)
EXTENDS Integers, Sequences, FiniteSets, TLC

VARIABLES
    op,           \* the top-level call and its arguments
    other,        \* a second atlassianRequest call made while the first is under way
    pc,           \* position of the top-level call
    req,          \* the request executor: the promise of the current atlassianRequest call
    net,          \* network requests issued so far, with their answers
    suspensions,  \* setTimeout suspensions of the current atlassianRequest call (429 waits)
    stack,        \* tree walk: one frame per active loop (recursion of buildPageTree)
    created,      \* createIssueTree: the array `created`
    console,      \* console.log lines of the creators and walks
    ret,          \* settlement of the top-level call
    config,       \* config.mjs: the module's cached configuration (_config)
    sources,      \* process.env and the .env file
    loads,        \* the loadConfig calls of the program so far and what they returned
    pacings,      \* pacing suspensions of the walks: the number of requests sent before each
    parked        \* a second run of a walk, while the event loop runs the first

vars == <<op, other, pc, req, net, suspensions, stack, created, console, ret,
          config, sources, loads, pacings, parked>>

----------------------------------------------------------------------------
\* Bounds of the model

MaxRetries == 4
MaxNodes == 3
MaxThrottle == 1

\* Program constants

DefaultRetries == 3
ExcerptLen == 500
MarkerLen == 14
FallbackSeconds == 5
UploadExcerptLen == 200
HintSeconds == 2

NoId == 0
HomeId == 1
Absent == 0 - 1
NoStatus == 0

----------------------------------------------------------------------------
\* Strings are modelled by their length and the offset of the first
\* occurrence of the text 'already exists' in them (-1: none).  A response
\* body also says whether it parses as JSON and which id/key the parsed
\* object carries (NoId: none).

Text(len, at) == [len |-> len, at |-> at]

Body(fmt, id, len, at) == [fmt |-> fmt, id |-> id, len |-> len, at |-> at]

NoBody == Body("none", NoId, 0, 0 - 1)

Min(a, b) == IF a <= b THEN a ELSE b

\* data.substring(0, n)
Substring(data, n) ==
    Text(Min(data.len, n),
         IF data.at >= 0 /\ data.at + MarkerLen <= n THEN data.at ELSE 0 - 1)

\* message.includes('already exists')
Includes(message) == message.text.at >= 0

\* variant: a body that is not JSON resolves to undefined
ParseOrUndefined(data) ==
    IF data.fmt = "json"
    THEN [type |-> "object", id |-> data.id, len |-> 0]
    ELSE [type |-> "undefined", id |-> NoId, len |-> 0]

\* try { JSON.parse(data) } catch { data }
ParseOrRaw(data) ==
    IF data.fmt = "json"
    THEN [type |-> "object", id |-> data.id, len |-> 0]
    ELSE [type |-> "string", id |-> NoId, len |-> data.len]

Undefined == [type |-> "undefined", id |-> NoId, len |-> 0]

\* result.id / result.key
IdOf(result) == IF result.type = "object" THEN result.id ELSE NoId

\* variant: the message holds the whole response body
HttpErrorWholeBody(status, data) ==
    [statusCode |-> status,
     message |-> [status |-> status, text |-> Text(data.len, data.at)],
     body |-> data]

\* new Error(`HTTP ${status}: ${data.substring(0, 500)}`) with statusCode and body
HttpError(status, data) ==
    [statusCode |-> status,
     message |-> [status |-> status, text |-> Substring(data, ExcerptLen)],
     body |-> data]

\* the 'error' event of the socket: no statusCode, no body
TransportError ==
    [statusCode |-> NoStatus,
     message |-> [status |-> NoStatus, text |-> Text(20, 0 - 1)],
     body |-> NoBody]

NoError == [statusCode |-> NoStatus, message |-> [status |-> NoStatus, text |-> Text(0, 0 - 1)], body |-> NoBody]

----------------------------------------------------------------------------
\* config.mjs: loadConfig and resetConfig

\* The value of a variable in process.env or of a key in the .env file:
\* not there, there and empty, or there with text.  A text names where it
\* was written: "env" in process.env, "file" in .env, "alt" in the file
\* named by a configPath argument.
Unset == "unset"

Keys == {"domain", "email", "token", "dir"}

\* get(key, fallback = ''): SCREENSHOT_DIR falls back to './screenshots'
Fallback0(key) == IF key = "dir" THEN "./screenshots" ELSE ""

\* a value that is falsy for the || of get: undefined or ''
Falsy(value) == value = Unset \/ value = ""

\* process.env[key] || env[key] || fallback
Get(env, file, key) ==
    IF ~Falsy(env[key]) THEN env[key]
    ELSE IF ~Falsy(file[key]) THEN file[key]
    ELSE Fallback0(key)

\* the file a configPath argument names
AltFile == [k \in Keys |-> "alt"]

\* configPath || path.resolve(process.cwd(), '.env'), then the parse of the file
FileAt(configPath) == IF configPath = Absent THEN sources.file ELSE AltFile

\* _config = null; `id` counts the configuration objects built so far, to
\* tell one object from the next
NoConfig == [set |-> FALSE, id |-> 0, domain |-> "", email |-> "", token |-> "", dir |-> ""]

\* the object literal of loadConfig, built from the sources as they are now
Read(configPath) ==
    [set |-> TRUE, id |-> config.id + 1,
     domain |-> Get(sources.env, FileAt(configPath), "domain"),
     email |-> Get(sources.env, FileAt(configPath), "email"),
     token |-> Get(sources.env, FileAt(configPath), "token"),
     dir |-> Get(sources.env, FileAt(configPath), "dir")]

\* variant: loadConfig builds the object on every call
loadConfigAlways(configPath) == Read(configPath)

\* loadConfig(configPath): if (_config) return _config; else build and keep it
loadConfig(configPath) == IF config.set THEN config ELSE Read(configPath)

\* get auth(): base64 of `${email}:${token}`, kept as the pair it encodes
AuthOf(cfg) == <<cfg.email, cfg.token>>

\* 'Og==', the base64 of ':'
NoCreds == <<"", "">>

\* opts.domain || config.atlassian.domain
DomainOf(opts) == IF opts.overrides = "explicit" THEN "opts" ELSE loadConfig(Absent).domain

\* opts.auth || config.atlassian.auth
AuthFor(opts) == IF opts.overrides = "explicit" THEN <<"opts", "opts">> ELSE AuthOf(loadConfig(Absent))

\* the two checks of atlassianRequest pass: domain, and auth other than 'Og=='
Configured(opts) == DomainOf(opts) # "" /\ AuthFor(opts) # NoCreds

\* a process.env and a .env file that give every key
CompleteSources ==
    [env |-> [k \in Keys |-> IF k = "dir" THEN Unset ELSE "env"],
     file |-> [k \in Keys |-> Unset]]

\* new Error('ATLASSIAN_DOMAIN not set...') / ('ATLASSIAN_EMAIL and ATLASSIAN_API_TOKEN not set.')
ConfigError ==
    [statusCode |-> NoStatus,
     message |-> [status |-> NoStatus, text |-> Text(50, 0 - 1)],
     body |-> NoBody]

----------------------------------------------------------------------------
\* The request executor

\* The Retry-After header of a response: absent, a number of seconds, or an
\* HTTP-date such as 'Wed, 21 Oct 2026 07:28:00 GMT'.
NoHeader == [kind |-> "absent", n |-> 0]

Seconds(n) == [kind |-> "seconds", n |-> n]

HttpDate == [kind |-> "date", n |-> 0]

\* the result of parseInt on text that does not start with a number
NaN == 0 - 1

\* parseInt(res.headers['retry-after'] || '5', 10)
RetryAfterOf(header) ==
    CASE header.kind = "absent" -> FallbackSeconds
      [] header.kind = "seconds" -> header.n
      [] OTHER -> NaN

\* setTimeout(..., retryAfter * 1000): a delay that is not a number of at
\* least 1 is run as a delay of 1 ms
TimerMs(retryAfter) ==
    IF retryAfter = NaN \/ retryAfter * 1000 < 1 THEN 1 ELSE retryAfter * 1000

\* opts: the retry budget and the domain/auth/headers overrides of the caller
NoOpts == [retries |-> Absent, overrides |-> "none"]

Idle ==
    [st |-> "idle", method |-> "", path |-> "", key |-> "", parent |-> NoId,
     opts |-> NoOpts, maxRetries |-> 0, at |-> 0, timer |-> 0,
     host |-> "", auth |-> NoCreds, scope |-> "", thrown |-> FALSE,
     val |-> Undefined, err |-> NoError, settles |-> 0]

\* answer of a network request still in flight / lost to a transport failure
Pending == [status |-> Absent, body |-> NoBody, retryAfter |-> NoHeader]

Failed == [status |-> NoStatus, body |-> NoBody, retryAfter |-> NoHeader]

\* variant: opts.retries || 3
MaxRetriesOr(retries) == IF retries = Absent \/ retries = 0 THEN DefaultRetries ELSE retries

\* opts.retries ?? 3
MaxRetriesOf(retries) == IF retries = Absent THEN DefaultRetries ELSE retries

\* variant: a 429 is retried even when no retry is left
ClassifyNoBudgetCheck(statusCode, maxRetries) ==
    IF statusCode >= 200 /\ statusCode < 300 THEN "resolve"
    ELSE IF statusCode = 429 /\ maxRetries >= 0 THEN "retry"
    ELSE "reject"

\* variant: status 200 itself is not taken as a success
ClassifyAbove200(statusCode, maxRetries) ==
    IF statusCode > 200 /\ statusCode < 300 THEN "resolve"
    ELSE IF statusCode = 429 /\ maxRetries > 0 THEN "retry"
    ELSE "reject"

\* the branches of res.on('end')
Classify(statusCode, maxRetries) ==
    IF statusCode >= 200 /\ statusCode < 300 THEN "resolve"
    ELSE IF statusCode = 429 /\ maxRetries > 0 THEN "retry"
    ELSE "reject"

\* the promise of an atlassianRequest call whose network request was just
\* sent as entry `at` of net; `key` and `parent` are what the path and the
\* JSON body say about the resource (natural key, parent reference)
Sent(method, path, key, parent, opts, at) ==
    [Idle EXCEPT !.st = "inflight", !.method = method, !.path = path,
                 !.key = key, !.parent = parent, !.opts = opts,
                 !.host = DomainOf(opts), !.auth = AuthFor(opts), !.scope = op.key,
                 !.maxRetries = MaxRetriesOf(opts.retries), !.at = at]

\* https.request(options, ...): the network request of a call, sent `after`
\* milliseconds of suspension
Entry(call, after) ==
    [method |-> call.method, path |-> call.path, key |-> call.key,
     parent |-> call.parent, retries |-> call.maxRetries,
     overrides |-> call.opts.overrides, host |-> call.host, auth |-> call.auth,
     scope |-> call.scope, after |-> after, answer |-> Pending]

\* the throw of atlassianRequest before any promise is made; in an async
\* caller (createPage, createIssue, createSpace, createProject) it rejects
\* the caller's promise at its await
Thrown == [Idle EXCEPT !.st = "rejected", !.err = ConfigError, !.thrown = TRUE]

\* atlassianRequest(method, path, body, opts): loads the configuration,
\* throws when domain or auth is missing, else builds the options and sends
\* the network request
atlassianRequest(method, path, key, parent, opts) ==
    /\ config' = loadConfig(Absent)
    /\ IF Configured(opts)
       THEN /\ req' = Sent(method, path, key, parent, opts, Len(net) + 1)
            /\ net' = Append(net, Entry(Sent(method, path, key, parent, opts, Len(net) + 1),
                                        IF req.st = "suspended" THEN req.timer ELSE 0))
       ELSE /\ req' = Thrown
            /\ UNCHANGED net

\* a fresh call from a caller: a new promise, no suspension yet
FreshRequest(method, path, key, parent, opts) ==
    /\ atlassianRequest(method, path, key, parent, opts)
    /\ suspensions' = 0

Throttled == Cardinality({i \in DOMAIN net : net[i].answer.status = 429})

MayThrottle == op.name \in {"atlassianRequest", "calls", "env"} \/ Throttled < MaxThrottle

\* the operations that update a page: updatePage called alone, and
\* uploadScreenshotsToConfluence, which calls it last
Updaters == {"updatePage", "uploadScreenshots"}

ContentPath == "/wiki/rest/api/content/{id}"

\* the path of the requests of uploadAttachment, which has handlers of its
\* own for their answers
UploadPath == "/wiki/rest/api/content/{pageId}/child/attachment"

\* the version number of the page updatePage works on, before any update
BaseVersion == 1

\* the version number the backend holds for that page: every PUT it accepted
\* made a new version
PageVersion ==
    BaseVersion + Cardinality({i \in DOMAIN net : /\ net[i].method = "PUT"
                                                  /\ net[i].path = ContentPath
                                                  /\ net[i].answer.status >= 200
                                                  /\ net[i].answer.status < 300})

\* a PUT of updatePage that does not carry the version after the current one
Stale == op.name \in Updaters /\ req.method = "PUT" /\ req.key # PageVersion + 1

\* Bodies the backend sends with a 2xx answer: a JSON object carrying a fresh
\* identifier, a JSON object without one, or text that is not JSON.  To the
\* GET of updatePage: results whose first entry carries the current version
\* number (the body's id stands for results[0].version.number), or empty
\* results.
OkBodies ==
    IF op.name \in {"calls", "env"} THEN {Body("json", Len(net) + 1, 40, 0 - 1)}
    ELSE IF op.name \in Updaters /\ req.method = "GET"
         THEN {Body("json", PageVersion, 40, 0 - 1), Body("json", NoId, 2, 0 - 1)}
    ELSE {Body("json", req.at + 1, 40, 0 - 1), Body("text", NoId, 2, 0 - 1)}
            \cup (IF op.name = "atlassianRequest" THEN {Body("json", NoId, 2, 0 - 1)} ELSE {})

\* Bodies the backend sends with a non-2xx answer: short or longer than the
\* excerpt, with the text 'already exists' nowhere, early, straddling the
\* excerpt's end, or beyond it.
ErrBodies ==
    CASE op.name \in {"buildPageTree", "createIssueTree"} /\ op.run > 0 -> {Body("json", NoId, 60, 20)}
      [] op.name \in {"buildPageTree", "createIssueTree", "calls", "env"} \cup Updaters -> {Body("json", NoId, 60, 0 - 1)}
      [] op.name = "atlassianRequest" -> {Body("json", NoId, 60, 0 - 1), Body("text", NoId, 600, 0 - 1)}
      [] OTHER -> {Body("json", NoId, 60, 0 - 1), Body("json", NoId, 60, 20),
                   Body("json", NoId, 600, 490), Body("json", NoId, 600, 520)}

ErrStatuses ==
    CASE op.name \in {"buildPageTree", "createIssueTree"} /\ op.run > 0 -> {409}
      [] op.name \in {"buildPageTree", "createIssueTree", "calls", "env"} -> {500}
      [] op.name \in Updaters -> IF Stale THEN {409} ELSE {500}
      [] op.name = "atlassianRequest" -> {300, 404, 500}
      [] OTHER -> {400, 409, 500}

\* the backend accepts a PUT of updatePage only with the next version number
OkStatuses ==
    IF op.name = "atlassianRequest" THEN {200, 299}
    ELSE IF Stale THEN {}
    ELSE {200}

\* Retry-After headers the backend sends with a 429
Hints ==
    IF op.name = "atlassianRequest" THEN {NoHeader, Seconds(HintSeconds), HttpDate}
    ELSE {NoHeader}

Answers ==
    [status : OkStatuses, body : OkBodies, retryAfter : {NoHeader}]
        \cup [status : ErrStatuses, body : ErrBodies, retryAfter : {NoHeader}]
        \cup [status : {429}, body : {Body("json", NoId, 60, 0 - 1)}, retryAfter : Hints]

\* res.on('end') of a call: resolve, suspend on a timer, or reject
Ended(call, r) ==
    LET branch == Classify(r.status, call.maxRetries) IN
    CASE branch = "resolve" ->
           [call EXCEPT !.st = "resolved", !.val = ParseOrRaw(r.body), !.settles = @ + 1]
      [] branch = "retry" ->
           [call EXCEPT !.st = "suspended", !.timer = TimerMs(RetryAfterOf(r.retryAfter))]
      [] OTHER ->
           [call EXCEPT !.st = "rejected", !.err = HttpError(r.status, r.body),
                        !.settles = @ + 1]

\* res.on('end'): the answer of the network request in flight is complete
OnEnd ==
    /\ req.st = "inflight"
    /\ req.path # UploadPath
    /\ \E r \in Answers :
         /\ r.status = 429 => MayThrottle
         /\ net' = [net EXCEPT ![req.at].answer = r]
         /\ req' = Ended(req, r)
         /\ suspensions' = IF Ended(req, r).st = "suspended" THEN suspensions + 1
                           ELSE suspensions
    /\ UNCHANGED <<op, other, sources, loads, parked, config, pacings, pc, stack, created, console, ret>>

\* variant: the reissue keeps its retry budget
OnTimerKeepsBudget ==
    /\ req.st = "suspended"
    /\ Configured(req.opts)
    /\ atlassianRequest(req.method, req.path, req.key, req.parent,
                        [req.opts EXCEPT !.retries = req.maxRetries])
    /\ UNCHANGED <<op, other, sources, loads, parked, pacings, pc, suspensions, stack, created, console, ret>>

\* the setTimeout callback: the same request again, one retry less
\* ({ ...opts, retries: maxRetries - 1 }).  When this atlassianRequest call
\* throws, the exception leaves the timer callback: nothing settles the
\* promise of the suspended call any more.
OnTimer ==
    /\ req.st = "suspended"
    /\ IF Configured(req.opts)
       THEN atlassianRequest(req.method, req.path, req.key, req.parent,
                             [req.opts EXCEPT !.retries = req.maxRetries - 1])
       ELSE /\ config' = loadConfig(Absent)
            /\ req' = [req EXCEPT !.st = "lost"]
            /\ UNCHANGED net
    /\ UNCHANGED <<op, other, sources, loads, parked, pacings, pc, suspensions, stack, created, console, ret>>

\* variant: a transport failure is answered with a reissue
OnErrorReissues ==
    /\ req.st = "inflight"
    /\ req' = Sent(req.method, req.path, req.key, req.parent, req.opts, Len(net) + 1)
    /\ net' = Append([net EXCEPT ![req.at].answer = Failed], Entry(req, 0))
    /\ UNCHANGED <<op, other, sources, loads, parked, config, pacings, pc, suspensions, stack, created, console, ret>>

\* req.on('error', reject)
OnError ==
    /\ req.st = "inflight"
    /\ req.path # UploadPath
    /\ net' = [net EXCEPT ![req.at].answer = Failed]
    /\ req' = [req EXCEPT !.st = "rejected", !.err = TransportError, !.settles = @ + 1]
    /\ UNCHANGED <<op, other, sources, loads, parked, config, pacings, pc, suspensions, stack, created, console, ret>>

NoRet == [st |-> "pending", val |-> Undefined, err |-> NoError]

----------------------------------------------------------------------------
\* A caller of atlassianRequest alone

Methods == {"GET", "POST"}

RetryOpts == {Absent} \cup (0 .. MaxRetries)

\* opts.domain, opts.auth and opts.headers: left out or given by the caller
Overrides == {"none", "explicit"}

Call ==
    /\ op.name \in {"atlassianRequest", "calls", "env"}
    /\ pc = "start"
    /\ FreshRequest(op.method, "/any", "", NoId,
                    [retries |-> op.retries, overrides |-> op.overrides])
    /\ pc' = "await"
    /\ UNCHANGED <<op, other, sources, loads, parked, pacings, stack, created, console, ret>>

Settle ==
    /\ op.name \in {"atlassianRequest", "calls", "env"}
    /\ pc = "await"
    /\ req.st \in {"resolved", "rejected"}
    /\ ret' = [st |-> req.st, val |-> req.val, err |-> req.err]
    /\ pc' = "done"
    /\ UNCHANGED <<op, other, sources, loads, parked, config, pacings, req, net, suspensions, stack, created, console>>

NoOp == [name |-> "", method |-> "", retries |-> Absent, retries2 |-> Absent,
         overrides |-> "none",
         key |-> "", parentId |-> NoId, delayMs |-> 0, parents |-> <<>>, labelled |-> {},
         file |-> "", shots |-> <<>>,
         run |-> 0, netMark |-> 0, logMark |-> 0]

\* the other run's place when there is none
NoRun == [pc |-> "none"]

\* the program before its first call, whatever its environment
InitRun ==
    /\ config = NoConfig
    /\ loads = <<>>
    /\ pacings = <<>>
    /\ parked = NoRun
    /\ pc = "start"
    /\ req = Idle
    /\ other = Idle
    /\ net = <<>>
    /\ suspensions = 0
    /\ stack = <<>>
    /\ created = <<>>
    /\ console = <<>>
    /\ ret = NoRet

\* process.env and the .env file of a configured program
InitCommon ==
    /\ sources = CompleteSources
    /\ InitRun

\* process.env with each of ATLASSIAN_DOMAIN, ATLASSIAN_EMAIL and
\* ATLASSIAN_API_TOKEN set or not set, and no .env file
Environments ==
    {[env |-> [k \in Keys |-> IF k \in present THEN "env" ELSE Unset],
      file |-> [k \in Keys |-> Unset]] : present \in SUBSET {"domain", "email", "token"}}

InitReq ==
    /\ \E m \in Methods, r \in RetryOpts, o \in Overrides :
         op = [NoOp EXCEPT !.name = "atlassianRequest", !.method = m, !.retries = r,
                           !.overrides = o]
    /\ InitCommon

NextReq == Call \/ OnEnd \/ OnTimer \/ OnError \/ Settle

SpecReq == InitReq /\ [][NextReq]_vars

----------------------------------------------------------------------------
\* Two atlassianRequest calls of one program.  The second call is made at
\* any moment: before the first, while the first is in flight or suspended
\* on its timer, or after it has settled.  Each call has its own promise,
\* closure (maxRetries) and timer: `req` for the first, `other` for the
\* second.

MaxPairRetries == 1

PairRetryOpts == {Absent} \cup (0 .. MaxPairRetries)

\* variant: the second call starts from what the first call has left
OtherCallSharedBudget ==
    /\ op.name = "calls"
    /\ other.st = "idle"
    /\ config' = loadConfig(Absent)
    /\ other' = Sent("GET", "/other", "", NoId,
                     [retries |-> req.maxRetries, overrides |-> "none"], Len(net) + 1)
    /\ net' = Append(net, Entry(other', 0))
    /\ UNCHANGED <<op, pc, req, suspensions, stack, created, console, ret,
                   sources, loads, pacings, parked>>

\* the second call: atlassianRequest('GET', path, null, {retries})
\* variant: the second call waits while the first is suspended
OtherCallAfterSuspension ==
    /\ op.name = "calls"
    /\ other.st = "idle"
    /\ req.st # "suspended"
    /\ config' = loadConfig(Absent)
    /\ other' = Sent("GET", "/other", "", NoId,
                     [retries |-> op.retries2, overrides |-> "none"], Len(net) + 1)
    /\ net' = Append(net, Entry(other', 0))
    /\ UNCHANGED <<op, pc, req, suspensions, stack, created, console, ret,
                   sources, loads, pacings, parked>>

OtherCall ==
    /\ op.name = "calls"
    /\ other.st = "idle"
    /\ config' = loadConfig(Absent)
    /\ IF Configured(NoOpts)
       THEN /\ other' = Sent("GET", "/other", "", NoId,
                             [retries |-> op.retries2, overrides |-> "none"], Len(net) + 1)
            /\ net' = Append(net, Entry(other', 0))
       ELSE /\ other' = Thrown
            /\ UNCHANGED net
    /\ UNCHANGED <<op, pc, req, suspensions, stack, created, console, ret,
                   sources, loads, pacings, parked>>

\* res.on('end') of the second call
OtherOnEnd ==
    /\ other.st = "inflight"
    /\ \E r \in Answers :
         /\ net' = [net EXCEPT ![other.at].answer = r]
         /\ other' = Ended(other, r)
    /\ UNCHANGED <<op, pc, req, suspensions, stack, created, console, ret,
                   config, sources, loads, pacings, parked>>

\* the setTimeout callback of the second call
OtherOnTimer ==
    /\ other.st = "suspended"
    /\ config' = loadConfig(Absent)
    /\ IF Configured(other.opts)
       THEN /\ other' = Sent(other.method, other.path, other.key, other.parent,
                             [other.opts EXCEPT !.retries = other.maxRetries - 1],
                             Len(net) + 1)
            /\ net' = Append(net, Entry(other', other.timer))
       ELSE /\ other' = [other EXCEPT !.st = "lost"]
            /\ UNCHANGED net
    /\ UNCHANGED <<op, pc, req, suspensions, stack, created, console, ret,
                   sources, loads, pacings, parked>>

\* req.on('error', reject) of the second call
OtherOnError ==
    /\ other.st = "inflight"
    /\ net' = [net EXCEPT ![other.at].answer = Failed]
    /\ other' = [other EXCEPT !.st = "rejected", !.err = TransportError, !.settles = @ + 1]
    /\ UNCHANGED <<op, pc, req, suspensions, stack, created, console, ret,
                   config, sources, loads, pacings, parked>>

InitCalls ==
    /\ \E r \in PairRetryOpts, r2 \in PairRetryOpts :
         op = [NoOp EXCEPT !.name = "calls", !.method = "GET", !.retries = r, !.retries2 = r2]
    /\ InitCommon

NextCalls ==
    \/ Call \/ OnEnd \/ OnTimer \/ OnError \/ Settle
    \/ OtherCall \/ OtherOnEnd \/ OtherOnTimer \/ OtherOnError

SpecCalls == InitCalls /\ [][NextCalls]_vars

----------------------------------------------------------------------------
\* uploadAttachment(apiPath, filepath, filename, opts): PUT the multipart
\* body, and POST it when the PUT is answered 404 or 400.  `req` is the
\* promise of the call; the multipart body is named by the file's name.

\* variant: the excerpt is as long as the one of atlassianRequest
UploadErrorLongExcerpt(status, data) ==
    [statusCode |-> NoStatus,
     message |-> [status |-> status, text |-> Substring(data, ExcerptLen)],
     body |-> NoBody]

\* new Error(`Upload failed: HTTP ${status}: ${data.substring(0, 200)}`): no
\* statusCode and no body property
UploadError(status, data) ==
    [statusCode |-> NoStatus,
     message |-> [status |-> status, text |-> Substring(data, UploadExcerptLen)],
     body |-> NoBody]

\* fs.readFileSync(filepath) threw inside the promise executor
FileError ==
    [statusCode |-> NoStatus,
     message |-> [status |-> NoStatus, text |-> Text(30, 0 - 1)],
     body |-> NoBody]

\* variant: every 4xx answer to the PUT falls back to POST
FallbackAny4xx(statusCode) == statusCode >= 400 /\ statusCode < 500

\* res.statusCode === 404 || res.statusCode === 400
Fallback(statusCode) == statusCode = 404 \/ statusCode = 400

Files == {"readable", "missing"}

\* the operations that upload: uploadAttachment called alone, and
\* uploadScreenshotsToConfluence, which calls it for every screenshot
Uploaders == {"uploadAttachment", "uploadScreenshots"}

\* answers of the backend to an upload request
UploadAnswers ==
    IF op.name = "uploadAttachment"
    THEN [status : {200, 299},
          body : {Body("json", Len(net) + 1, 40, 0 - 1), Body("text", NoId, 2, 0 - 1)},
          retryAfter : {NoHeader}]
             \cup [status : {400, 404, 429, 500},
                   body : {Body("json", NoId, 60, 0 - 1), Body("text", NoId, 300, 0 - 1)},
                   retryAfter : {NoHeader}]
    ELSE [status : {200}, body : {Body("json", Len(net) + 1, 40, 0 - 1)}, retryAfter : {NoHeader}]
             \cup [status : {404, 500}, body : {Body("json", NoId, 60, 0 - 1)},
                   retryAfter : {NoHeader}]

\* uploadAttachment(apiPath, filepath, filename, opts): the file is read and
\* the PUT is sent; a file that cannot be read rejects the promise before
\* any request
uploadAttachment(filename, file, overrides) ==
    /\ config' = loadConfig(Absent)
    /\ IF file = "readable"
       THEN /\ req' = [Sent("PUT", UploadPath, filename, NoId,
                            [retries |-> 0, overrides |-> overrides], Len(net) + 1)
                          EXCEPT !.maxRetries = 0]
            /\ net' = Append(net, Entry(req', 0))
       ELSE /\ req' = [Idle EXCEPT !.st = "rejected", !.err = FileError, !.settles = 1]
            /\ UNCHANGED net

\* the call of uploadAttachment alone
Upload ==
    /\ op.name = "uploadAttachment"
    /\ pc = "start"
    /\ uploadAttachment(op.key, op.file, op.overrides)
    /\ pc' = "await"
    /\ UNCHANGED <<op, other, sources, loads, parked, pacings, suspensions, stack, created, console, ret>>

\* res.on('end') of the PUT: resolve, send the POST (options.method = 'POST',
\* the same options and body), or reject
UploadOnEnd ==
    /\ op.name \in Uploaders
    /\ req.st = "inflight"
    /\ req.path = UploadPath
    /\ req.method = "PUT"
    /\ \E r \in UploadAnswers :
         IF r.status >= 200 /\ r.status < 300
         THEN /\ req' = [req EXCEPT !.st = "resolved", !.val = ParseOrRaw(r.body),
                                    !.settles = @ + 1]
              /\ net' = [net EXCEPT ![req.at].answer = r]
         ELSE IF Fallback(r.status)
         THEN /\ req' = [req EXCEPT !.method = "POST", !.at = Len(net) + 1]
              /\ net' = Append([net EXCEPT ![req.at].answer = r], Entry(req', 0))
         ELSE /\ req' = [req EXCEPT !.st = "rejected", !.err = UploadError(r.status, r.body),
                                    !.settles = @ + 1]
              /\ net' = [net EXCEPT ![req.at].answer = r]
    /\ UNCHANGED <<op, other, sources, loads, parked, config, pacings, pc, suspensions, stack, created, console, ret>>

\* res2.on('end') of the POST: resolve or reject
UploadOnEnd2 ==
    /\ op.name \in Uploaders
    /\ req.st = "inflight"
    /\ req.path = UploadPath
    /\ req.method = "POST"
    /\ \E r \in UploadAnswers :
         /\ req' = IF r.status >= 200 /\ r.status < 300
                   THEN [req EXCEPT !.st = "resolved", !.val = ParseOrRaw(r.body),
                                    !.settles = @ + 1]
                   ELSE [req EXCEPT !.st = "rejected", !.err = UploadError(r.status, r.body),
                                    !.settles = @ + 1]
         /\ net' = [net EXCEPT ![req.at].answer = r]
    /\ UNCHANGED <<op, other, sources, loads, parked, config, pacings, pc, suspensions, stack, created, console, ret>>

\* req.on('error', reject) of the PUT
UploadOnError ==
    /\ op.name \in Uploaders
    /\ req.st = "inflight"
    /\ req.path = UploadPath
    /\ req.method = "PUT"
    /\ net' = [net EXCEPT ![req.at].answer = Failed]
    /\ req' = [req EXCEPT !.st = "rejected", !.err = TransportError, !.settles = @ + 1]
    /\ UNCHANGED <<op, other, sources, loads, parked, config, pacings, pc, suspensions, stack, created, console, ret>>

\* req2.on('error', reject) of the POST
UploadOnError2 ==
    /\ op.name \in Uploaders
    /\ req.st = "inflight"
    /\ req.path = UploadPath
    /\ req.method = "POST"
    /\ net' = [net EXCEPT ![req.at].answer = Failed]
    /\ req' = [req EXCEPT !.st = "rejected", !.err = TransportError, !.settles = @ + 1]
    /\ UNCHANGED <<op, other, sources, loads, parked, config, pacings, pc, suspensions, stack, created, console, ret>>

\* the caller's await ends
UploadSettle ==
    /\ op.name = "uploadAttachment"
    /\ pc = "await"
    /\ req.st \in {"resolved", "rejected"}
    /\ ret' = [st |-> req.st, val |-> req.val, err |-> req.err]
    /\ pc' = "done"
    /\ UNCHANGED <<op, other, sources, loads, parked, config, pacings, req, net, suspensions, stack, created, console>>

InitUpload ==
    /\ \E f \in Files, o \in Overrides :
         op = [NoOp EXCEPT !.name = "uploadAttachment", !.key = "shot.png", !.file = f,
                           !.overrides = o]
    /\ sources \in Environments
    /\ InitRun

NextUpload ==
    Upload \/ UploadOnEnd \/ UploadOnEnd2 \/ UploadOnError \/ UploadOnError2 \/ UploadSettle

SpecUpload == InitUpload /\ [][NextUpload]_vars

----------------------------------------------------------------------------
\* createSpace(key, ...) and createProject(key, ...): create, and on a
\* conflict fetch the existing resource instead

Creators == {"createSpace", "createProject"}

CreatePath == IF op.name = "createSpace" THEN "/wiki/rest/api/space" ELSE "/rest/api/3/project"

FetchPath == IF op.name = "createSpace" THEN "/wiki/rest/api/space/{key}" ELSE "/rest/api/3/project/{key}"

Line(line, key, id, message) == [line |-> line, key |-> key, id |-> id, message |-> message]

NoMessage == NoError.message

\* variant: every create error is taken for a conflict
IsConflictAnyError(e) == TRUE

\* e.statusCode === 409 || e.message.includes('already exists')
IsConflict(e) == e.statusCode = 409 \/ Includes(e.message)

\* the call up to its first await: the POST is sent
Create ==
    /\ op.name \in Creators
    /\ pc = "start"
    /\ FreshRequest("POST", CreatePath, op.key, NoId, NoOpts)
    /\ console' = Append(console, Line("creating", op.key, NoId, NoMessage))
    /\ pc' = "create"
    /\ UNCHANGED <<op, other, sources, loads, parked, pacings, stack, created, ret>>

\* the POST resolved: log and return the result
CreateReturn ==
    /\ op.name \in Creators
    /\ pc = "create"
    /\ req.st = "resolved"
    /\ console' = Append(console, Line("created", op.key, IdOf(req.val), NoMessage))
    /\ ret' = [st |-> "resolved", val |-> req.val, err |-> NoError]
    /\ pc' = "done"
    /\ UNCHANGED <<op, other, sources, loads, parked, config, pacings, req, net, suspensions, stack, created>>

\* the POST rejected: on a conflict return the GET's promise, else rethrow
CreateCatch ==
    /\ op.name \in Creators
    /\ pc = "create"
    /\ req.st = "rejected"
    /\ IF IsConflict(req.err)
       THEN /\ console' = Append(console, Line("exists", op.key, NoId, NoMessage))
            /\ FreshRequest("GET", FetchPath, op.key, NoId, NoOpts)
            /\ pc' = "fetch"
            /\ UNCHANGED ret
       ELSE /\ ret' = [st |-> "rejected", val |-> Undefined, err |-> req.err]
            /\ pc' = "done"
            /\ UNCHANGED <<req, net, suspensions, console, config>>
    /\ UNCHANGED <<op, other, sources, loads, parked, pacings, stack, created>>

\* variant: a failed fetch is answered with another create
FetchSettleRecreates ==
    /\ op.name \in Creators
    /\ pc = "fetch"
    /\ req.st \in {"resolved", "rejected"}
    /\ IF req.st = "rejected"
       THEN /\ FreshRequest("POST", CreatePath, op.key, NoId, NoOpts)
            /\ pc' = "create"
            /\ UNCHANGED ret
       ELSE /\ ret' = [st |-> req.st, val |-> req.val, err |-> req.err]
            /\ pc' = "done"
            /\ UNCHANGED <<req, net, suspensions, config>>
    /\ UNCHANGED <<op, other, sources, loads, parked, pacings, stack, created, console>>

\* the returned GET promise settles the call
FetchSettle ==
    /\ op.name \in Creators
    /\ pc = "fetch"
    /\ req.st \in {"resolved", "rejected"}
    /\ ret' = [st |-> req.st, val |-> req.val, err |-> req.err]
    /\ pc' = "done"
    /\ UNCHANGED <<op, other, sources, loads, parked, config, pacings, req, net, suspensions, stack, created, console>>

InitCreate ==
    /\ op \in {[NoOp EXCEPT !.name = "createSpace", !.key = "ENG"],
                [NoOp EXCEPT !.name = "createProject", !.key = "ACME"]}
    /\ InitCommon

NextCreate ==
    Create \/ CreateReturn \/ CreateCatch \/ FetchSettle \/ OnEnd \/ OnTimer \/ OnError

SpecCreate == InitCreate /\ [][NextCreate]_vars

----------------------------------------------------------------------------
\* Forests of resource specifications.  Nodes are numbered in pre-order;
\* parents[n] is the parent of node n, 0 for a root.  A node's number is its
\* identifying key (page.title, issue.summary).

IsForest(parents) ==
    \A n \in DOMAIN parents :
        /\ parents[n] < n
        /\ \A m \in (parents[n] + 1) .. (n - 1) : parents[m] >= parents[n]

Forests ==
    {parents \in UNION {[1 .. k -> 0 .. MaxNodes] : k \in 0 .. MaxNodes} : IsForest(parents)}

\* page.children / issue.children, in their listed order (roots: n = 0)
Children(n) ==
    SelectSeq([m \in 1 .. Len(op.parents) |-> m], LAMBDA m : op.parents[m] = n)

Frame(parent, nodes) == [parent |-> parent, nodes |-> nodes, i |-> 1, result |-> Undefined]

Top == stack[Len(stack)]

Node == Top.nodes[Top.i]

SetTop(frame) == [stack EXCEPT ![Len(stack)] = frame]

NextNode == SetTop([Top EXCEPT !.i = @ + 1, !.result = Undefined])

\* The walks are run with pages that carry no labels (page.labels absent),
\* so createPage sends the one POST of the page; the backend answers a
\* creation with 2xx, 429, 500 or not at all (transport failure).
Walks == {"buildPageTree", "createIssueTree"}

DelayOpts == {0, 300}

----------------------------------------------------------------------------
\* buildPageTree(spaceKey, parentId, pages, delayMs) and createPage

\* createPage up to its await: payload.ancestors is set when parentId is truthy
createPage(title, parentId) ==
    FreshRequest("POST", "/wiki/rest/api/content", title,
                 IF parentId # NoId THEN parentId ELSE NoId, NoOpts)

\* the call itself: the loop over the root pages starts
BuildPageTree ==
    /\ op.name = "buildPageTree"
    /\ pc = "start"
    /\ stack' = <<Frame(op.parentId, Children(0))>>
    /\ pc' = "loop"
    /\ UNCHANGED <<op, other, sources, loads, parked, config, pacings, req, net, suspensions, created, console, ret>>

\* variant: createPage is not awaited, the loop goes on to the next page
PageVisitNoAwait ==
    /\ op.name = "buildPageTree"
    /\ pc = "loop"
    /\ Top.i <= Len(Top.nodes)
    /\ createPage(Node, Top.parent)
    /\ stack' = NextNode
    /\ UNCHANGED <<op, other, sources, loads, parked, pacings, pc, created, console, ret>>

\* for (const page of pages): await createPage(...)
PageVisit ==
    /\ op.name = "buildPageTree"
    /\ pc = "loop"
    /\ Top.i <= Len(Top.nodes)
    /\ createPage(Node, Top.parent)
    /\ pc' = "create"
    /\ UNCHANGED <<op, other, sources, loads, parked, pacings, stack, created, console, ret>>

\* createPage returned the result of a page without labels
PageCreated ==
    /\ op.name = "buildPageTree"
    /\ pc = "create"
    /\ req.st = "resolved"
    /\ Node \notin op.labelled
    /\ console' = Append(console, Line("created", Node, IdOf(req.val), NoMessage))
    /\ stack' = SetTop([Top EXCEPT !.result = req.val])
    /\ pc' = IF op.delayMs > 0 THEN "pacing" ELSE "children"
    /\ UNCHANGED <<op, other, sources, loads, parked, config, pacings, req, net, suspensions, created, ret>>

\* variant: the catch goes on to the children of the failed page
PageFailedDescends ==
    /\ op.name = "buildPageTree"
    /\ pc = "create"
    /\ req.st = "rejected"
    /\ console' = Append(console, Line("error", Node, NoId, req.err.message))
    /\ pc' = "children"
    /\ UNCHANGED <<op, other, sources, loads, parked, config, pacings, req, net, suspensions, stack, created, ret>>

\* variant: the error leaves the loop and rejects the walk
PageFailedRethrows ==
    /\ op.name = "buildPageTree"
    /\ pc = "create"
    /\ req.st = "rejected"
    /\ ret' = [st |-> "rejected", val |-> Undefined, err |-> req.err]
    /\ stack' = <<>>
    /\ pc' = "done"
    /\ UNCHANGED <<op, other, sources, loads, parked, config, pacings, req, net, suspensions, created, console>>

\* catch (e): log and go on with the next page
PageFailed ==
    /\ op.name = "buildPageTree"
    /\ pc = "create"
    /\ req.st = "rejected"
    /\ console' = Append(console, Line("error", Node, NoId, req.err.message))
    /\ stack' = NextNode
    /\ pc' = "loop"
    /\ UNCHANGED <<op, other, sources, loads, parked, config, pacings, req, net, suspensions, created, ret>>

\* the pacing timer fired
PagePaced ==
    /\ op.name = "buildPageTree"
    /\ pc = "pacing"
    /\ pacings' = Append(pacings, Len(net))
    /\ pc' = "children"
    /\ UNCHANGED <<op, other, sources, loads, parked, config, req, net, suspensions, stack, created, console, ret>>

\* if (page.children?.length) await buildPageTree(spaceKey, created.id, ...)
PageChildren ==
    /\ op.name = "buildPageTree"
    /\ pc = "children"
    /\ stack' = IF Len(Children(Node)) > 0
                 THEN Append(stack, Frame(IdOf(Top.result), Children(Node)))
                 ELSE NextNode
    /\ pc' = "loop"
    /\ UNCHANGED <<op, other, sources, loads, parked, config, pacings, req, net, suspensions, created, console, ret>>

\* the loop is over: the call returns (undefined), to the caller's loop if any
PageReturn ==
    /\ op.name = "buildPageTree"
    /\ pc = "loop"
    /\ Top.i > Len(Top.nodes)
    /\ IF Len(stack) = 1
       THEN /\ stack' = <<>>
            /\ ret' = [st |-> "resolved", val |-> Undefined, err |-> NoError]
            /\ pc' = "done"
       ELSE /\ stack' = LET rest == SubSeq(stack, 1, Len(stack) - 1) IN
                         [rest EXCEPT ![Len(rest)].i = @ + 1, ![Len(rest)].result = Undefined]
            /\ pc' = "loop"
            /\ UNCHANGED ret
    /\ UNCHANGED <<op, other, sources, loads, parked, config, pacings, req, net, suspensions, created, console>>

----------------------------------------------------------------------------
\* createIssueTree(projectKey, issues, delayMs) and createIssue

\* createIssue up to its await: fields.parent is set when opts.parentKey is truthy
createIssue(summary, parentKey) ==
    FreshRequest("POST", "/rest/api/3/issue", summary,
                 IF parentKey # NoId THEN parentKey ELSE NoId, NoOpts)

\* the call itself: created = [], the loop over issues starts
CreateIssueTree ==
    /\ op.name = "createIssueTree"
    /\ pc = "start"
    /\ created' = <<>>
    /\ stack' = <<Frame(NoId, Children(0))>>
    /\ pc' = "loop"
    /\ UNCHANGED <<op, other, sources, loads, parked, config, pacings, req, net, suspensions, console, ret>>

\* for (const issue of issues): await createIssue(...) without parentKey
IssueVisit ==
    /\ op.name = "createIssueTree"
    /\ pc = "loop"
    /\ Len(stack) = 1
    /\ Top.i <= Len(Top.nodes)
    /\ createIssue(Node, NoId)
    /\ pc' = "create"
    /\ UNCHANGED <<op, other, sources, loads, parked, pacings, stack, created, console, ret>>

\* for (const child of issue.children): await createIssue(...) with parentKey: result.key
ChildVisit ==
    /\ op.name = "createIssueTree"
    /\ pc = "loop"
    /\ Len(stack) = 2
    /\ Top.i <= Len(Top.nodes)
    /\ createIssue(Node, Top.parent)
    /\ pc' = "create"
    /\ UNCHANGED <<op, other, sources, loads, parked, pacings, stack, created, console, ret>>

\* variant: created.unshift(result)
IssueCreatedUnshift ==
    /\ op.name = "createIssueTree"
    /\ pc = "create"
    /\ req.st = "resolved"
    /\ console' = Append(console, Line("created", Node, IdOf(req.val), NoMessage))
    /\ created' = <<req.val>> \o created
    /\ stack' = SetTop([Top EXCEPT !.result = req.val])
    /\ pc' = IF op.delayMs > 0 THEN "pacing" ELSE "children"
    /\ UNCHANGED <<op, other, sources, loads, parked, config, pacings, req, net, suspensions, ret>>

\* createIssue logged and returned the result: created.push(result)
IssueCreated ==
    /\ op.name = "createIssueTree"
    /\ pc = "create"
    /\ req.st = "resolved"
    /\ console' = Append(console, Line("created", Node, IdOf(req.val), NoMessage))
    /\ created' = Append(created, req.val)
    /\ stack' = SetTop([Top EXCEPT !.result = req.val])
    /\ pc' = IF op.delayMs > 0 THEN "pacing" ELSE "children"
    /\ UNCHANGED <<op, other, sources, loads, parked, config, pacings, req, net, suspensions, ret>>

\* variant: the catch pushes an entry for the failed issue
IssueFailedPushes ==
    /\ op.name = "createIssueTree"
    /\ pc = "create"
    /\ req.st = "rejected"
    /\ console' = Append(console, Line("error", Node, NoId, req.err.message))
    /\ created' = Append(created, Undefined)
    /\ stack' = NextNode
    /\ pc' = "loop"
    /\ UNCHANGED <<op, other, sources, loads, parked, config, pacings, req, net, suspensions, ret>>

\* variant: the catch of a child takes the parent's entry back
IssueFailedDropsParent ==
    /\ op.name = "createIssueTree"
    /\ pc = "create"
    /\ req.st = "rejected"
    /\ console' = Append(console, Line("error", Node, NoId, req.err.message))
    /\ created' = IF Len(stack) = 2 /\ Len(created) > 0
                   THEN SubSeq(created, 1, Len(created) - 1) ELSE created
    /\ stack' = NextNode
    /\ pc' = "loop"
    /\ UNCHANGED <<op, other, sources, loads, parked, config, pacings, req, net, suspensions, ret>>

\* catch (e) of the issue or of the child: log and go on with the next one
IssueFailed ==
    /\ op.name = "createIssueTree"
    /\ pc = "create"
    /\ req.st = "rejected"
    /\ console' = Append(console, Line("error", Node, NoId, req.err.message))
    /\ stack' = NextNode
    /\ pc' = "loop"
    /\ UNCHANGED <<op, other, sources, loads, parked, config, pacings, req, net, suspensions, created, ret>>

\* the pacing timer fired
IssuePaced ==
    /\ op.name = "createIssueTree"
    /\ pc = "pacing"
    /\ pacings' = Append(pacings, Len(net))
    /\ pc' = "children"
    /\ UNCHANGED <<op, other, sources, loads, parked, config, req, net, suspensions, stack, created, console, ret>>

\* an issue: if (issue.children?.length) loop over them; a child: next child
IssueChildren ==
    /\ op.name = "createIssueTree"
    /\ pc = "children"
    /\ stack' = IF Len(stack) = 1 /\ Len(Children(Node)) > 0
                 THEN Append(stack, Frame(IdOf(Top.result), Children(Node)))
                 ELSE NextNode
    /\ pc' = "loop"
    /\ UNCHANGED <<op, other, sources, loads, parked, config, pacings, req, net, suspensions, created, console, ret>>

\* the loop over the children is over: next issue
ChildrenDone ==
    /\ op.name = "createIssueTree"
    /\ pc = "loop"
    /\ Len(stack) = 2
    /\ Top.i > Len(Top.nodes)
    /\ stack' = <<[stack[1] EXCEPT !.i = @ + 1, !.result = Undefined]>>
    /\ UNCHANGED <<op, other, sources, loads, parked, config, pacings, pc, req, net, suspensions, created, console, ret>>

\* return created
IssuesReturn ==
    /\ op.name = "createIssueTree"
    /\ pc = "loop"
    /\ Len(stack) = 1
    /\ Top.i > Len(Top.nodes)
    /\ stack' = <<>>
    /\ ret' = [st |-> "resolved", val |-> [type |-> "array", id |-> NoId, len |-> Len(created)],
               err |-> NoError]
    /\ pc' = "done"
    /\ UNCHANGED <<op, other, sources, loads, parked, config, pacings, req, net, suspensions, created, console>>

InitTree ==
    /\ \E f \in Forests, d \in DelayOpts :
         op \in {[NoOp EXCEPT !.name = "buildPageTree", !.key = "ENG", !.parentId = HomeId,
                              !.delayMs = d, !.parents = f],
                 [NoOp EXCEPT !.name = "createIssueTree", !.key = "ACME",
                              !.delayMs = d, !.parents = f]}
    /\ InitCommon

NextTree ==
    \/ BuildPageTree \/ PageVisit \/ PageCreated \/ PageFailed \/ PagePaced
    \/ PageChildren \/ PageReturn
    \/ CreateIssueTree \/ IssueVisit \/ ChildVisit \/ IssueCreated \/ IssueFailed
    \/ IssuePaced \/ IssueChildren \/ ChildrenDone \/ IssuesReturn
    \/ OnEnd \/ OnTimer \/ OnError

SpecTree == InitTree /\ [][NextTree]_vars

\* The walks in a program whose environment gives or lacks the domain and
\* the credentials
InitTreeConfig ==
    /\ \E f \in Forests, d \in DelayOpts :
         op \in {[NoOp EXCEPT !.name = "buildPageTree", !.key = "ENG", !.parentId = HomeId,
                              !.delayMs = d, !.parents = f],
                 [NoOp EXCEPT !.name = "createIssueTree", !.key = "ACME",
                              !.delayMs = d, !.parents = f]}
    /\ sources \in Environments
    /\ InitRun

SpecTreeConfig == InitTreeConfig /\ [][NextTree]_vars

----------------------------------------------------------------------------
\* buildPageTree over pages some of which carry labels (page.labels not
\* empty): createPage sends the label request after the page was created.
\* op.labelled is the set of the pages with labels.

PagePath == "/wiki/rest/api/content"

LabelPath == "/wiki/rest/api/content/{id}/label"

\* createPage after its first await, labels.length > 0: the page is logged
\* and the label request is sent for result.id
PageLabel ==
    /\ op.name = "buildPageTree"
    /\ pc = "create"
    /\ req.st = "resolved"
    /\ Node \in op.labelled
    /\ console' = Append(console, Line("created", Node, IdOf(req.val), NoMessage))
    /\ stack' = SetTop([Top EXCEPT !.result = req.val])
    /\ FreshRequest("POST", LabelPath, Node, IdOf(req.val), NoOpts)
    /\ pc' = "label"
    /\ UNCHANGED <<op, other, sources, loads, parked, pacings, created, ret>>

\* variant: an error of the label request is the error of createPage
PageLabelledRethrows ==
    /\ op.name = "buildPageTree"
    /\ pc = "label"
    /\ req.st \in {"resolved", "rejected"}
    /\ IF req.st = "rejected"
       THEN /\ console' = Append(console, Line("error", Node, NoId, req.err.message))
            /\ stack' = NextNode
            /\ pc' = "loop"
       ELSE /\ pc' = IF op.delayMs > 0 THEN "pacing" ELSE "children"
            /\ UNCHANGED <<console, stack>>
    /\ UNCHANGED <<op, other, sources, loads, parked, config, pacings, req, net, suspensions,
                   created, ret>>

\* the label request settled, `catch { /* ignore label errors */ }`:
\* createPage returns the page
PageLabelled ==
    /\ op.name = "buildPageTree"
    /\ pc = "label"
    /\ req.st \in {"resolved", "rejected"}
    /\ pc' = IF op.delayMs > 0 THEN "pacing" ELSE "children"
    /\ UNCHANGED <<op, other, sources, loads, parked, config, pacings, req, net, suspensions,
                   stack, created, console, ret>>

\* a page with a child page, or two pages
LabelForests == {<<0, 1>>, <<0, 0>>}

\* labels on the first page only, or on both
LabelSets == {{1}, {1, 2}}

InitLabels ==
    /\ \E f \in LabelForests, l \in LabelSets, d \in DelayOpts :
         op = [NoOp EXCEPT !.name = "buildPageTree", !.key = "ENG", !.parentId = HomeId,
                           !.delayMs = d, !.parents = f, !.labelled = l]
    /\ InitCommon

NextLabels ==
    \/ BuildPageTree \/ PageVisit \/ PageCreated \/ PageLabel \/ PageLabelled
    \/ PageFailed \/ PagePaced \/ PageChildren \/ PageReturn
    \/ OnEnd \/ OnTimer \/ OnError

SpecLabels == InitLabels /\ [][NextLabels]_vars

----------------------------------------------------------------------------
\* Two walks of one program, each on its own forest and under its own key,
\* started one after the other without awaiting the first.  The event loop
\* runs one of them at a time: the variables op, pc, req, suspensions,
\* stack, created and ret are those of the run that has the control, and
\* `parked` holds those of the run that waits.  The control passes at an
\* await only: the run waits for the answer of its request, for a timer, or
\* has not begun or has returned.  The network, the console and the
\* configuration are the program's.

\* the two walks with their first argument, their forest and their pacing
\* delay: one page, and an issue with a child issue
PairWalks ==
    {<<"buildPageTree", "ENG", <<0>>, 300>>, <<"createIssueTree", "ACME", <<0, 1>>, 300>>}

\* the local state of the run that has the control
Run ==
    [op |-> op, pc |-> pc, req |-> req, suspensions |-> suspensions, stack |-> stack,
     created |-> created, ret |-> ret]

\* the run that has the control is at an await, has not begun or has returned
Awaiting ==
    \/ pc \in {"start", "pacing", "done"}
    \/ pc = "create" /\ req.st \in {"inflight", "suspended"}
    \/ pc \in {"read", "write"}

\* variant: the array `created` is one for the program, not one per run
SwitchSharedCreated ==
    /\ parked # NoRun
    /\ Awaiting
    /\ parked' = Run
    /\ op' = parked.op
    /\ pc' = parked.pc
    /\ req' = parked.req
    /\ suspensions' = parked.suspensions
    /\ stack' = parked.stack
    /\ ret' = parked.ret
    /\ UNCHANGED <<other, net, console, config, sources, loads, pacings, created>>

\* the event loop goes on with the other run
Switch ==
    /\ parked # NoRun
    /\ Awaiting
    /\ parked' = Run
    /\ op' = parked.op
    /\ pc' = parked.pc
    /\ req' = parked.req
    /\ suspensions' = parked.suspensions
    /\ stack' = parked.stack
    /\ created' = parked.created
    /\ ret' = parked.ret
    /\ UNCHANGED <<other, net, console, config, sources, loads, pacings>>

\* a walk as it is when it is called
Fresh(walk) ==
    [op |-> [NoOp EXCEPT !.name = walk[1], !.key = walk[2],
                         !.parentId = IF walk[1] = "buildPageTree" THEN HomeId ELSE NoId,
                         !.delayMs = walk[4], !.parents = walk[3]],
     pc |-> "start", req |-> Idle, suspensions |-> 0, stack |-> <<>>, created |-> <<>>,
     ret |-> NoRet]

InitPair ==
    /\ \E w \in PairWalks :
         /\ op = Fresh(w).op
         /\ \E w2 \in PairWalks \ {w} : parked = Fresh(w2)
    /\ sources = CompleteSources
    /\ config = NoConfig
    /\ loads = <<>>
    /\ pacings = <<>>
    /\ pc = "start"
    /\ req = Idle
    /\ other = Idle
    /\ net = <<>>
    /\ suspensions = 0
    /\ stack = <<>>
    /\ created = <<>>
    /\ console = <<>>
    /\ ret = NoRet

NextPair == NextTree \/ Switch

SpecPair == InitPair /\ [][NextPair]_vars

----------------------------------------------------------------------------
\* updatePage(spaceKey, title, body): read the page by its title, then PUT
\* the new body with the version number after the one read.  Two calls for
\* the same page may be under way in one program, each with its own body
\* (op.key); an answer is decided when the backend makes it and the call
\* goes on when it has reached the program, which may be after events of
\* the other call.

ContentQuery == "/wiki/rest/api/content?spaceKey={spaceKey}&title={title}&expand=version"

Title == "Home"

\* the value null
Null == [type |-> "null", id |-> NoId, len |-> 0]

\* (result.results || []).length === 0
NoMatch(result) == IdOf(result) = NoId

\* pages[0].version.number
VersionOf(result) == IdOf(result)

\* where the program is when updatePage has returned: at its end, or in
\* uploadScreenshotsToConfluence after its last await
Returned == IF op.name = "updatePage" THEN "done" ELSE "updated"

\* updatePage up to its first await: the GET by space key and title
UpdatePage ==
    /\ op.name = "updatePage"
    /\ pc = "start"
    /\ FreshRequest("GET", ContentQuery, Title, NoId, NoOpts)
    /\ pc' = "read"
    /\ UNCHANGED <<op, other, sources, loads, parked, pacings, stack, created, console, ret>>

\* no page matches: log and return null
UpdateSkip ==
    /\ op.name \in Updaters
    /\ pc = "read"
    /\ req.st = "resolved"
    /\ NoMatch(req.val)
    /\ console' = Append(console, Line("skipping", op.key, NoId, NoMessage))
    /\ ret' = [st |-> "resolved", val |-> Null, err |-> NoError]
    /\ pc' = Returned
    /\ UNCHANGED <<op, other, sources, loads, parked, config, pacings, req, net, suspensions, stack, created>>

\* variant: the PUT carries the version number read
UpdateWriteSameVersion ==
    /\ op.name \in Updaters
    /\ pc = "read"
    /\ req.st = "resolved"
    /\ ~NoMatch(req.val)
    /\ created' = <<req.val>>
    /\ FreshRequest("PUT", ContentPath, VersionOf(req.val), HomeId, NoOpts)
    /\ pc' = "write"
    /\ UNCHANGED <<op, other, sources, loads, parked, pacings, stack, console, ret>>

\* a page matches: PUT pages[0] with v = page.version.number + 1.  The
\* request's key is the version number it carries, `created` holds the page.
UpdateWrite ==
    /\ op.name \in Updaters
    /\ pc = "read"
    /\ req.st = "resolved"
    /\ ~NoMatch(req.val)
    /\ created' = <<req.val>>
    /\ FreshRequest("PUT", ContentPath, VersionOf(req.val) + 1, HomeId, NoOpts)
    /\ pc' = "write"
    /\ UNCHANGED <<op, other, sources, loads, parked, pacings, stack, console, ret>>

\* the GET or the PUT rejected: updatePage rejects with its error
UpdateRejected ==
    /\ op.name \in Updaters
    /\ pc \in {"read", "write"}
    /\ req.st = "rejected"
    /\ ret' = [st |-> "rejected", val |-> Undefined, err |-> req.err]
    /\ pc' = Returned
    /\ UNCHANGED <<op, other, sources, loads, parked, config, pacings, req, net, suspensions, stack, created, console>>

\* the PUT resolved: log and return the page that was read
UpdateDone ==
    /\ op.name \in Updaters
    /\ pc = "write"
    /\ req.st = "resolved"
    /\ console' = Append(console, Line("updated", op.key, VersionOf(created[1]) + 1, NoMessage))
    /\ ret' = [st |-> "resolved", val |-> created[1], err |-> NoError]
    /\ pc' = Returned
    /\ UNCHANGED <<op, other, sources, loads, parked, config, pacings, req, net, suspensions, stack, created>>

\* an updatePage call as it is when it is made
FreshUpdate(body) ==
    [op |-> [NoOp EXCEPT !.name = "updatePage", !.key = body],
     pc |-> "start", req |-> Idle, suspensions |-> 0, stack |-> <<>>, created |-> <<>>,
     ret |-> NoRet]

\* one call, or two calls made one after the other without awaiting the first
InitUpdate ==
    /\ op = FreshUpdate("A").op
    /\ parked \in {NoRun, FreshUpdate("B")}
    /\ sources = CompleteSources
    /\ config = NoConfig
    /\ loads = <<>>
    /\ pacings = <<>>
    /\ pc = "start"
    /\ req = Idle
    /\ other = Idle
    /\ net = <<>>
    /\ suspensions = 0
    /\ stack = <<>>
    /\ created = <<>>
    /\ console = <<>>
    /\ ret = NoRet

NextUpdate ==
    \/ UpdatePage
    \/ UpdateSkip
    \/ UpdateWrite
    \/ UpdateRejected
    \/ UpdateDone
    \/ OnEnd
    \/ OnTimer
    \/ OnError
    \/ Switch

SpecUpdate == InitUpdate /\ [][NextUpdate]_vars

----------------------------------------------------------------------------
\* uploadScreenshotsToConfluence(screenshots, spaceKey, pageTitle): find the
\* page, upload every screenshot as an attachment of it, build a body that
\* embeds the screenshots, and update the page.  op.shots is the list of the
\* screenshots, each given by whether its file can be read; a screenshot's
\* name is its place in the list.

MaxShots == 2

PageQuery == "/wiki/rest/api/content?spaceKey={spaceKey}&title={title}&expand=version,body.storage"

\* the lists of screenshots
ShotLists == UNION {[1..n -> Files] : n \in 0..MaxShots}

\* the body built after the uploads, given by the images it embeds: one
\* cf.image(`${ss.name}.png`) for every ss of screenshots
PageBody(screenshots) == DOMAIN screenshots

\* up to the first request: confluence.getPage(spaceKey, pageTitle)
GetPage ==
    /\ op.name = "uploadScreenshots"
    /\ pc = "start"
    /\ FreshRequest("GET", PageQuery, Title, NoId, NoOpts)
    /\ pc' = "find"
    /\ UNCHANGED <<op, other, sources, loads, parked, pacings, stack, created, console, ret>>

\* getPage returned null (result.results?.[0] || null): log and return
ShotsNotFound ==
    /\ op.name = "uploadScreenshots"
    /\ pc = "find"
    /\ req.st = "resolved"
    /\ NoMatch(req.val)
    /\ console' = Append(console, Line("not found", op.key, NoId, NoMessage))
    /\ ret' = [st |-> "resolved", val |-> Undefined, err |-> NoError]
    /\ pc' = "done"
    /\ UNCHANGED <<op, other, sources, loads, parked, config, pacings, req, net, suspensions, stack, created>>

\* getPage rejected: so does the function
ShotsFindRejected ==
    /\ op.name = "uploadScreenshots"
    /\ pc = "find"
    /\ req.st = "rejected"
    /\ ret' = [st |-> "rejected", val |-> Undefined, err |-> req.err]
    /\ pc' = "done"
    /\ UNCHANGED <<op, other, sources, loads, parked, config, pacings, req, net, suspensions, stack, created, console>>

\* the page was found: the loop over the screenshots begins; `stack` holds
\* the screenshots still to come, the current one first
ShotsFound ==
    /\ op.name = "uploadScreenshots"
    /\ pc = "find"
    /\ req.st = "resolved"
    /\ ~NoMatch(req.val)
    /\ created' = <<req.val>>
    /\ console' = Append(console, Line("uploading all", op.key, Len(op.shots), NoMessage))
    /\ stack' = [i \in 1..Len(op.shots) |-> i]
    /\ pc' = "next"
    /\ UNCHANGED <<op, other, sources, loads, parked, config, pacings, req, net, suspensions, ret>>

\* the loop's body up to its await: log and call uploadPageAttachment
ShotUpload ==
    /\ op.name = "uploadScreenshots"
    /\ pc = "next"
    /\ stack # <<>>
    /\ console' = Append(console, Line("uploading", Head(stack), NoId, NoMessage))
    /\ uploadAttachment(Head(stack), op.shots[Head(stack)], "none")
    /\ pc' = "upload"
    /\ UNCHANGED <<op, other, sources, loads, parked, pacings, suspensions, stack, created, ret>>

\* the upload resolved
ShotUploaded ==
    /\ op.name = "uploadScreenshots"
    /\ pc = "upload"
    /\ req.st = "resolved"
    /\ console' = Append(console, Line("uploaded", Head(stack), NoId, NoMessage))
    /\ stack' = Tail(stack)
    /\ pc' = "next"
    /\ UNCHANGED <<op, other, sources, loads, parked, config, pacings, req, net, suspensions, created, ret>>

\* the upload rejected: catch (e), log, and go on with the next screenshot
ShotFailed ==
    /\ op.name = "uploadScreenshots"
    /\ pc = "upload"
    /\ req.st = "rejected"
    /\ console' = Append(console, Line("failed", Head(stack), NoId, req.err.message))
    /\ stack' = Tail(stack)
    /\ pc' = "next"
    /\ UNCHANGED <<op, other, sources, loads, parked, config, pacings, req, net, suspensions, created, ret>>

\* after the loop: the body is built (`stack` holds it from here on) and
\* confluence.updatePage(spaceKey, pageTitle, body) is called
ShotsUpdate ==
    /\ op.name = "uploadScreenshots"
    /\ pc = "next"
    /\ stack = <<>>
    /\ stack' = <<PageBody(op.shots)>>
    /\ FreshRequest("GET", ContentQuery, Title, NoId, NoOpts)
    /\ pc' = "read"
    /\ UNCHANGED <<op, other, sources, loads, parked, pacings, created, console, ret>>

\* updatePage has returned: log and return, or reject with its error
ShotsReturn ==
    /\ op.name = "uploadScreenshots"
    /\ pc = "updated"
    /\ IF ret.st = "resolved"
       THEN /\ console' = Append(console, Line("page updated", op.key, NoId, NoMessage))
            /\ ret' = [st |-> "resolved", val |-> Undefined, err |-> NoError]
       ELSE UNCHANGED <<console, ret>>
    /\ pc' = "done"
    /\ UNCHANGED <<op, other, sources, loads, parked, config, pacings, req, net, suspensions, stack, created>>

InitShots ==
    /\ \E screenshots \in ShotLists :
         op = [NoOp EXCEPT !.name = "uploadScreenshots", !.key = "ENG", !.shots = screenshots]
    /\ InitCommon

NextShots ==
    \/ GetPage
    \/ ShotsNotFound
    \/ ShotsFindRejected
    \/ ShotsFound
    \/ ShotUpload
    \/ ShotUploaded
    \/ ShotFailed
    \/ ShotsUpdate
    \/ UpdateSkip
    \/ UpdateWrite
    \/ UpdateRejected
    \/ UpdateDone
    \/ ShotsReturn
    \/ OnEnd
    \/ OnTimer
    \/ OnError
    \/ UploadOnEnd
    \/ UploadOnEnd2
    \/ UploadOnError
    \/ UploadOnError2

SpecShots == InitShots /\ [][NextShots]_vars

----------------------------------------------------------------------------
\* Provisioning a forest against a backend that may already hold resources
\* under the natural keys of the forest, and provisioning it a second time:
\* the setup script is run again with the same forest.  The backend answers
\* the creation for a key it holds with a conflict, or makes one more
\* resource where it does not keep keys unique.  `net` and `console` go on
\* as the history of both runs; op.netMark and op.logMark are where the
\* second run starts in them.

\* the script is started again: the same walk on the same forest
Rerun ==
    /\ op.name \in Walks
    /\ op.run = 1
    /\ pc = "done"
    /\ op' = [op EXCEPT !.run = 2, !.netMark = Len(net), !.logMark = Len(console)]
    /\ pc' = "start"
    /\ req' = Idle
    /\ suspensions' = 0
    /\ stack' = <<>>
    /\ created' = <<>>
    /\ ret' = NoRet
    /\ UNCHANGED <<other, net, console, config, sources, loads, pacings, parked>>

InitProvision ==
    /\ \E f \in Forests, d \in DelayOpts :
         op \in {[NoOp EXCEPT !.name = "buildPageTree", !.key = "ENG", !.parentId = HomeId,
                              !.delayMs = d, !.parents = f, !.run = 1],
                 [NoOp EXCEPT !.name = "createIssueTree", !.key = "ACME",
                              !.delayMs = d, !.parents = f, !.run = 1]}
    /\ InitCommon

NextProvision == NextTree \/ Rerun

SpecProvision == InitProvision /\ [][NextProvision]_vars

----------------------------------------------------------------------------
\* One atlassianRequest call in a program whose environment gives or lacks
\* each of ATLASSIAN_DOMAIN, ATLASSIAN_EMAIL and ATLASSIAN_API_TOKEN, and
\* which may call resetConfig and change process.env at any moment, between
\* the handlers of the call too.  There is no .env file.

\* resetConfig(): _config = null
resetConfig == config' = [NoConfig EXCEPT !.id = config.id]

ResetConfig ==
    /\ resetConfig
    /\ UNCHANGED <<op, other, pc, req, net, suspensions, stack, created, console, ret,
                   sources, loads, pacings, parked>>

\* process.env of another site: another domain and other credentials
OtherSite ==
    [env |-> [k \in Keys |-> IF k = "dir" THEN Unset ELSE "other"],
     file |-> [k \in Keys |-> Unset]]

\* process.env.X = ... or delete process.env.X
SetEnv ==
    /\ \E e \in Environments \cup {OtherSite} : e # sources /\ sources' = e
    /\ UNCHANGED <<op, other, pc, req, net, suspensions, stack, created, console, ret,
                   config, loads, pacings, parked>>

EnvRetryOpts == {Absent, 1}

InitEnv ==
    /\ \E r \in EnvRetryOpts, o \in Overrides :
         op = [NoOp EXCEPT !.name = "env", !.method = "GET", !.retries = r,
                           !.overrides = o]
    /\ sources \in Environments
    /\ InitRun

NextEnv == Call \/ OnEnd \/ OnTimer \/ OnError \/ Settle \/ ResetConfig \/ SetEnv

\* Every network request is answered or fails (the 'end' or the 'error'
\* event is delivered), the event loop runs every timer that is due and
\* every continuation that is ready.
SpecEnv ==
    /\ InitEnv
    /\ [][NextEnv]_vars
    /\ WF_vars(OnEnd \/ OnError)
    /\ WF_vars(OnTimer)
    /\ WF_vars(Settle)

----------------------------------------------------------------------------
\* The configuration module alone: a program that calls loadConfig, with or
\* without a configPath, and resetConfig, and whose process.env and .env
\* file change in between.  `loads` keeps every call: what it was given,
\* the sources as they were, and the object it returned.

MaxLoads == 4

\* a configPath argument
AltPath == 1

\* ATLASSIAN_DOMAIN nowhere, or given by the .env file and not set, set to
\* '' or set in process.env; email and token set in process.env,
\* SCREENSHOT_DIR nowhere
ConfigSources ==
    {[env |-> [k \in Keys |-> CASE k = "domain" -> d[1] [] k = "dir" -> Unset [] OTHER -> "env"],
      file |-> [k \in Keys |-> IF k = "domain" THEN d[2] ELSE Unset]] :
        d \in {<<Unset, Unset>>, <<Unset, "file">>, <<"", "file">>, <<"env", "file">>}}

\* const config = loadConfig(configPath)
LoadConfig ==
    /\ op.name = "config"
    /\ Len(loads) < MaxLoads
    /\ \E p \in {Absent, AltPath} :
         /\ config' = loadConfig(p)
         /\ loads' = Append(loads, [kind |-> "load", path |-> p, seen |-> sources,
                                    got |-> loadConfig(p)])
    /\ UNCHANGED <<op, other, pc, req, net, suspensions, stack, created, console, ret,
                   sources, pacings, parked>>

\* resetConfig()
ConfigReset ==
    /\ op.name = "config"
    /\ Len(loads) < MaxLoads
    /\ resetConfig
    /\ loads' = Append(loads, [kind |-> "reset", path |-> Absent, seen |-> CompleteSources,
                               got |-> NoConfig])
    /\ UNCHANGED <<op, other, pc, req, net, suspensions, stack, created, console, ret,
                   sources, pacings, parked>>

\* process.env or the .env file changes
SetSources ==
    /\ op.name = "config"
    /\ \E e \in ConfigSources : e # sources /\ sources' = e
    /\ UNCHANGED <<op, other, pc, req, net, suspensions, stack, created, console, ret,
                   config, loads, pacings, parked>>

InitConfig ==
    /\ op = [NoOp EXCEPT !.name = "config"]
    /\ sources \in ConfigSources
    /\ InitRun

NextConfig == LoadConfig \/ ConfigReset \/ SetSources

SpecConfig == InitConfig /\ [][NextConfig]_vars

----------------------------------------------------------------------------
\* Claims about the request executor (SpecReq)

Budget == MaxRetriesOf(op.retries)

Last == net[Len(net)]

AllThrottled == net # <<>> /\ \A i \in DOMAIN net : net[i].answer.status = 429

ThrottledThenOk ==
    /\ net # <<>>
    /\ \A i \in 1 .. Len(net) - 1 : net[i].answer.status = 429
    /\ Last.answer.status >= 200 /\ Last.answer.status < 300

\* C1: with retry budget N, when every attempt is answered 429, the call is
\* not settled before the (N+1)th network call, never makes a further one,
\* and is rejected exactly once, with status 429 and the response body.
C1_ExhaustedBudgetRejectsOnce ==
    (op.name = "atlassianRequest" /\ AllThrottled) =>
        /\ Len(net) <= Budget + 1
        /\ Len(net) < Budget + 1 => req.st = "suspended" /\ req.settles = 0 /\ ret.st = "pending"
        /\ Len(net) = Budget + 1 =>
              /\ req.st = "rejected" /\ req.settles = 1
              /\ req.err.statusCode = 429 /\ req.err.body = Last.answer.body
              /\ pc = "done" => ret.st = "rejected" /\ ret.err = req.err

C1_Witness ==
    /\ op.name = "atlassianRequest" /\ op.retries = Absent
    /\ AllThrottled /\ Len(net) = DefaultRetries + 1 /\ ret.st = "rejected"

\* C2: with retry budget N, when the first k <= N attempts are answered 429
\* and the next one 2xx, the call resolves with the payload of that answer
\* after exactly k suspensions and k+1 network calls.
C2_ThrottledThenSuccess ==
    (op.name = "atlassianRequest" /\ ThrottledThenOk /\ Len(net) - 1 <= Budget) =>
        /\ req.st = "resolved" /\ req.settles = 1
        /\ suspensions = Len(net) - 1
        /\ \/ req.val.type = "object" /\ Last.answer.body.fmt = "json"
                 /\ req.val.id = Last.answer.body.id
           \/ req.val.type = "string" /\ Last.answer.body.fmt # "json"
                 /\ req.val.len = Last.answer.body.len
        /\ pc = "done" => ret.st = "resolved" /\ ret.val = req.val

C2_Witness ==
    /\ op.name = "atlassianRequest" /\ ThrottledThenOk
    /\ Len(net) = 3 /\ suspensions = 2 /\ ret.st = "resolved"

----------------------------------------------------------------------------
\* Claims about createSpace and createProject (SpecCreate)

Max(S) == CHOOSE x \in S : \A y \in S : y <= x

Posts == {i \in DOMAIN net : net[i].method = "POST"}

Gets == {i \in DOMAIN net : net[i].method = "GET"}

\* the answer that ended the create call (the last POST of its retry chain)
CreateAnswer == net[Max(Posts)].answer

CreateDone == pc \in {"fetch", "done"} \/ (pc = "create" /\ req.st \in {"resolved", "rejected"})

CreateFailed ==
    /\ op.name \in Creators /\ CreateDone
    /\ ~(CreateAnswer.status >= 200 /\ CreateAnswer.status < 300)

\* the response body holds the text 'already exists'
SaysAlreadyExists(answer) == answer.body.at >= 0

\* C9: whenever the create call is answered 409 or with a response that
\* says 'already exists', the fetch for the same key is issued and the
\* operation's outcome is the outcome of that fetch.
C9_ConflictResolvesToFetch ==
    (CreateFailed /\ pc = "done"
        /\ (CreateAnswer.status = 409 \/ SaysAlreadyExists(CreateAnswer))) =>
        /\ Cardinality(Gets) >= 1
        /\ req.method = "GET" /\ req.path = FetchPath /\ req.key = op.key
        /\ ret.st = req.st /\ ret.val = req.val /\ ret.err = req.err

\* C10: when the create call fails and the failure is no conflict (status
\* other than 409, no 'already exists' in the response), no fetch is issued
\* and the call rejects with the very error of the create call.
C10_OtherErrorsPropagate ==
    (CreateFailed /\ CreateAnswer.status # 409 /\ ~SaysAlreadyExists(CreateAnswer)) =>
        /\ Gets = {}
        /\ req.method = "POST" /\ req.st = "rejected"
        /\ req.err.statusCode = CreateAnswer.status /\ req.err.body = CreateAnswer.body
        /\ pc = "done" => ret.st = "rejected" /\ ret.err = req.err

C10_Witness ==
    /\ op.name = "createSpace" /\ pc = "done" /\ CreateFailed
    /\ CreateAnswer.status = 500 /\ ~SaysAlreadyExists(CreateAnswer)
    /\ ret.st = "rejected" /\ ret.err.statusCode = 500

----------------------------------------------------------------------------
\* Claims about buildPageTree and createIssueTree (SpecTree)

Nodes == DOMAIN op.parents

RECURSIVE Ancestors(_)
Ancestors(n) ==
    IF op.parents[n] = 0 THEN {} ELSE {op.parents[n]} \cup Ancestors(op.parents[n])

\* network requests of node n; the first of each creation call has the full budget
Requests(n) == {i \in DOMAIN net : net[i].key = n}

Attempts(n) == {i \in Requests(n) : net[i].retries = DefaultRetries}

Attempted == {n \in Nodes : Requests(n) # {}}

IsOk(answer) == answer.status >= 200 /\ answer.status < 300

\* an answer that ends the creation call with an error
IsFailure(entry) ==
    /\ entry.answer # Pending
    /\ ~IsOk(entry.answer)
    /\ ~(entry.answer.status = 429 /\ entry.retries > 0)

Succeeded(n) == \E i \in Requests(n) : IsOk(net[i].answer)

CallFailed(n) == \E i \in Requests(n) : IsFailure(net[i])

LinesOf(line) == SelectSeq(console, LAMBDA l : l.line = line)

Logged(line, n) == {i \in DOMAIN console : console[i].line = line /\ console[i].key = n}

FailedNodes == {net[i].key : i \in {j \in DOMAIN net : IsFailure(net[j])}}

\* C3: when the creation call of a node fails, no request is ever issued
\* for a descendant of it and no descendant is reported as created.
C3_DescendantSkip ==
    op.name \in Walks =>
        LET failed == FailedNodes IN
        /\ \A i \in DOMAIN net : Ancestors(net[i].key) \cap failed = {}
        /\ \A i \in DOMAIN console :
              console[i].line = "created" => Ancestors(console[i].key) \cap failed = {}

C3_Witness ==
    /\ op.name = "buildPageTree" /\ op.parents = <<0, 1, 1>> /\ pc = "done"
    /\ CallFailed(1) /\ net[1].answer.status = 500 /\ Len(net) = 1

\* C4: every creation request of a non-root node carries, as its parent
\* reference, the identifier returned by its parent's creation call, which
\* was answered before; none is sent without a parent reference.
C4_ChildCarriesParentId ==
    op.name \in Walks =>
        \A i \in DOMAIN net :
            op.parents[net[i].key] # 0 =>
                /\ net[i].parent # NoId
                /\ \E j \in 1 .. (i - 1) :
                      /\ net[j].key = op.parents[net[i].key]
                      /\ IsOk(net[j].answer)
                      /\ net[j].answer.body.id = net[i].parent

\* C5: an error of a node's creation never rejects or stops the walk: the
\* walk goes on until it returns, and by then every later sibling of a
\* failed node and every root has been attempted.
C5_FailureIsolation ==
    op.name \in Walks =>
        /\ ret.st # "rejected"
        /\ pc # "done" => ENABLED NextTree
        /\ pc = "done" =>
              /\ \A n \in Nodes : op.parents[n] = 0 => n \in Attempted
              /\ \A n \in Nodes, s \in Nodes :
                    (CallFailed(n) /\ s > n /\ op.parents[s] = op.parents[n]) => s \in Attempted

C5_Witness ==
    /\ op.name = "createIssueTree" /\ op.parents = <<0, 1, 1>> /\ pc = "done"
    /\ CallFailed(2) /\ net[2].answer = Failed /\ Succeeded(3) /\ ret.st = "resolved"

\* C6: every node all of whose ancestors were created successfully gets
\* exactly one creation attempt, at any depth.
C6_EveryReachableNodeOnce ==
    (op.name \in Walks /\ pc = "done") =>
        \A n \in Nodes :
            (\A a \in Ancestors(n) : Succeeded(a)) => Cardinality(Attempts(n)) = 1

\* the entries of the value the walk returns
Report == IF op.name = "createIssueTree" THEN created ELSE <<>>

OkAnswers == SelectSeq(net, LAMBDA entry : IsOk(entry.answer))

OutOfOrder(x, y) ==
    \/ y \in Ancestors(x)
    \/ \E n \in {y} \cup Ancestors(y) : op.parents[x] = op.parents[n] /\ n < x

\* C8: the outcomes appear in pre-order: a node before its descendants, the
\* children in their listed order, a node's whole subtree before the node's
\* next sibling; the array createIssueTree returns is in that same order.
C8_PreOrder ==
    op.name \in Walks =>
        LET lines == LinesOf("created") IN
        /\ \A k \in DOMAIN Report :
              k <= Len(lines) /\ IdOf(Report[k]) = lines[k].id
        /\ \A i \in DOMAIN lines, j \in DOMAIN lines :
              i < j => lines[i].key # lines[j].key /\ ~OutOfOrder(lines[i].key, lines[j].key)
        /\ \A i \in DOMAIN net, j \in DOMAIN net :
              (i < j /\ net[i].key # net[j].key) => ~OutOfOrder(net[i].key, net[j].key)

C8_Witness ==
    /\ op.name = "createIssueTree" /\ op.parents = <<0, 1, 0>> /\ pc = "done"
    /\ Len(created) = 3 /\ \A k \in 1 .. 3 : created[k].type = "object"

----------------------------------------------------------------------------
\* Claims about provisioning over existing resources (SpecProvision)

\* the creation answer of a request says the natural key is taken
IsConflictAnswer(answer) == answer.status = 409 \/ SaysAlreadyExists(answer)

\* C11: when the creation call of a node of a walk is answered with a
\* 409/'already exists' conflict, the node is not reported as failed: no
\* error line is logged for it, and by the end of the run the existing
\* resource has been fetched by its key.
C11_ConflictNodeIsFetched ==
    op.name \in Walks =>
        /\ \A i \in DOMAIN console :
              console[i].line = "error" => console[i].message.status # 409
        /\ pc = "done" =>
              \A i \in DOMAIN net :
                  IsConflictAnswer(net[i].answer) =>
                      \E j \in (i + 1) .. Len(net) :
                          net[j].method = "GET" /\ net[j].key = net[i].key

\* the requests and the console lines of the first and of the second run
FirstRun == 1 .. op.netMark

SecondRun == (op.netMark + 1) .. Len(net)

FirstLog == 1 .. op.logMark

SecondLog == (op.logMark + 1) .. Len(console)

\* after the first run every node's natural key exists on the backend
AllExistAfterFirstRun ==
    \A n \in Nodes : \E i \in FirstRun : net[i].key = n /\ IsOk(net[i].answer)

\* C12: when the walk is run twice on a forest and every node's key exists
\* after the first run, the second run reports every node as created with
\* the identifier of the first run, and the backend has made no second
\* resource for any key.
C12_SecondRunSameResources ==
    (op.name \in Walks /\ op.run = 2 /\ pc = "done" /\ AllExistAfterFirstRun) =>
        /\ \A n \in Nodes :
              \E i \in FirstLog, j \in SecondLog :
                  /\ console[i].line = "created" /\ console[i].key = n
                  /\ console[j].line = "created" /\ console[j].key = n
                  /\ console[j].id = console[i].id
        /\ \A i \in DOMAIN net, j \in DOMAIN net :
              (i < j /\ net[i].key = net[j].key /\ IsOk(net[i].answer)) => ~IsOk(net[j].answer)

----------------------------------------------------------------------------
\* Claims about uploadAttachment (SpecUpload)

Answered(entry) == entry.answer # Pending /\ entry.answer # Failed

\* C13: the first request of an upload is a PUT; a second request is sent
\* exactly when the PUT is answered 404 or 400, it is a POST to the same
\* path with the same body; there is never a third request, and a POST
\* answered with a non-2xx status, 404 and 400 included, rejects the call.
C13_PutThenAtMostOnePost ==
    op.name = "uploadAttachment" =>
        /\ Len(net) <= 2
        /\ Len(net) >= 1 => net[1].method = "PUT"
        /\ Len(net) = 2 <=> (Len(net) >= 1 /\ net[1].answer.status \in {400, 404})
        /\ Len(net) = 2 =>
              /\ net[2].method = "POST"
              /\ net[2].path = net[1].path /\ net[2].key = net[1].key
              /\ net[2].overrides = net[1].overrides
              /\ (Answered(net[2]) /\ ~IsOk(net[2].answer)) =>
                    req.st = "rejected" /\ req.settles = 1

C13_Witness ==
    /\ op.name = "uploadAttachment" /\ Len(net) = 2 /\ pc = "done"
    /\ net[1].answer.status = 404 /\ net[2].answer.status = 400 /\ ret.st = "rejected"

\* C14: an upload rejects with an error whose message carries the status
\* and the first 200 characters of the body of the last attempt when the
\* PUT is answered with a non-2xx status other than 404/400 (no second
\* request then) or when the POST is answered with a non-2xx status; it
\* resolves with the parsed (else raw) body of the attempt answered 2xx.
C14_UploadOutcome ==
    (op.name = "uploadAttachment" /\ net # <<>> /\ Answered(Last)) =>
        /\ IsOk(Last.answer) =>
              /\ req.st = "resolved" /\ req.settles = 1
              /\ req.val = ParseOrRaw(Last.answer.body)
        /\ ~IsOk(Last.answer) =>
              /\ req.st = "rejected" /\ req.settles = 1
              /\ req.err.message.status = Last.answer.status
              /\ req.err.message.text = Substring(Last.answer.body, UploadExcerptLen)
              /\ Last.method = "PUT" => Len(net) = 1 /\ Last.answer.status \notin {400, 404}
        /\ pc = "done" => ret.st = req.st /\ ret.val = req.val /\ ret.err = req.err

C14_Witness ==
    /\ op.name = "uploadAttachment" /\ pc = "done" /\ Len(net) = 1
    /\ net[1].answer.status = 429 /\ net[1].answer.body.len = 300
    /\ ret.st = "rejected" /\ ret.err.message.status = 429
    /\ ret.err.message.text.len = UploadExcerptLen

----------------------------------------------------------------------------
\* Further claims about the request executor (SpecReq)

\* C15: an answer outside 200-299 that is not a 429 with budget left
\* rejects the call at once: it is the last network call of the call, no
\* suspension follows it, and the error carries the status and a message
\* holding the first 500 characters of the body at most.
C15_HttpErrorRejectsAtOnce ==
    op.name = "atlassianRequest" =>
        \A i \in DOMAIN net :
            (Answered(net[i]) /\ IsFailure(net[i])) =>
                /\ i = Len(net)
                /\ suspensions = i - 1
                /\ req.st = "rejected" /\ req.settles = 1
                /\ req.err.statusCode = net[i].answer.status
                /\ req.err.message.status = net[i].answer.status
                /\ req.err.message.text = Substring(net[i].answer.body, ExcerptLen)
                /\ req.err.message.text.len <= ExcerptLen
                /\ pc = "done" => ret.st = "rejected" /\ ret.err = req.err

C15_Witness ==
    /\ op.name = "atlassianRequest" /\ pc = "done" /\ Len(net) = 1 /\ suspensions = 0
    /\ net[1].answer.status = 404 /\ net[1].answer.body.len = 600
    /\ ret.st = "rejected" /\ ret.err.statusCode = 404
    /\ ret.err.message.text.len = ExcerptLen

\* C16: a transport failure of any attempt, the first or a reissue, rejects
\* the call with the transport error, and no network call follows it
\* whatever budget is left.
C16_TransportFailureIsFinal ==
    op.name = "atlassianRequest" =>
        \A i \in DOMAIN net :
            net[i].answer = Failed =>
                /\ i = Len(net)
                /\ req.st = "rejected" /\ req.settles = 1
                /\ req.err = TransportError
                /\ pc = "done" => ret.st = "rejected" /\ ret.err = TransportError

C16_Witness ==
    /\ op.name = "atlassianRequest" /\ op.retries = Absent /\ pc = "done"
    /\ Len(net) = 2 /\ net[1].answer.status = 429 /\ net[2].answer = Failed
    /\ net[2].retries = DefaultRetries - 1 /\ ret.st = "rejected"

\* the seconds the claim has the call wait after an answer
ClaimedWait(answer) ==
    IF answer.retryAfter.kind = "seconds" THEN answer.retryAfter.n ELSE FallbackSeconds

\* C17: after a 429 with budget left the call is suspended for the seconds
\* of the Retry-After header, and for 5 seconds when the header is absent
\* or is no number; the reissue is sent after that suspension.
C17_SuspendsForHint ==
    op.name = "atlassianRequest" =>
        /\ req.st = "suspended" => req.timer = ClaimedWait(Last.answer) * 1000
        /\ \A i \in 2 .. Len(net) : net[i].after = ClaimedWait(net[i - 1].answer) * 1000

\* C18: a reissue sends the request of the attempt before it (method, path,
\* body, overrides) with a budget smaller by exactly one; the budget never
\* goes below zero.
C18_ReissueIdentical ==
    op.name = "atlassianRequest" =>
        \A i \in DOMAIN net :
            /\ net[i].retries >= 0
            /\ i > 1 =>
                  /\ net[i].method = net[i - 1].method
                  /\ net[i].path = net[i - 1].path
                  /\ net[i].key = net[i - 1].key
                  /\ net[i].parent = net[i - 1].parent
                  /\ net[i].overrides = net[i - 1].overrides
                  /\ net[i].retries = net[i - 1].retries - 1

C18_Witness ==
    /\ op.name = "atlassianRequest" /\ op.retries = 2 /\ op.overrides = "explicit"
    /\ op.method = "POST" /\ Len(net) = 3
    /\ net[3].retries = 0 /\ net[3].overrides = "explicit" /\ net[3].method = "POST"

----------------------------------------------------------------------------
\* Claims about two calls (SpecCalls)

\* the network requests of the first and of the second call
RequestsOf(path) == {i \in DOMAIN net : net[i].path = path}

\* the budget the claim gives a fresh call made with opts.retries = retries
ClaimedBudget(retries) == IF retries = Absent THEN 3 ELSE retries

\* the budget of request i when it is the k-th request of a call begun with `retries`
BudgetRuns(path, retries) ==
    \A i \in RequestsOf(path) :
        net[i].retries =
            ClaimedBudget(retries) - (Cardinality({j \in RequestsOf(path) : j <= i}) - 1)

\* C19: every call starts with a budget of 3, or with opts.retries when it
\* is given (0 included), and goes down by its own 429 answers only: the
\* k-th request of a call has the call's budget less k - 1, whatever the
\* other call, made before, after or during it, has used.
C19_BudgetPerCall ==
    op.name = "calls" =>
        /\ BudgetRuns("/any", op.retries)
        /\ BudgetRuns("/other", op.retries2)
        /\ Cardinality(RequestsOf("/any")) <= ClaimedBudget(op.retries) + 1
        /\ Cardinality(RequestsOf("/other")) <= ClaimedBudget(op.retries2) + 1

\* the first call has used two retries and waits on its timer when the
\* second call, with no retries allowed, is sent and rejected on its 429
C19_Witness ==
    /\ op.name = "calls" /\ op.retries = Absent /\ op.retries2 = 0
    /\ Cardinality(RequestsOf("/any")) = 3 /\ req.st = "suspended" /\ req.maxRetries = 1
    /\ Len(net) = 4 /\ net[4].path = "/other" /\ net[4].retries = 0
    /\ net[4].answer.status = 429 /\ other.st = "rejected"

----------------------------------------------------------------------------
\* The success branch of the request executor (SpecReq)

\* C20: an answer with a status in 200-299 resolves the call, with the
\* parsed object when the body is JSON and with the body text itself when
\* it is not; it is never followed by a retry and never rejects.
C20_SuccessResolves ==
    op.name = "atlassianRequest" =>
        \A i \in DOMAIN net :
            IsOk(net[i].answer) =>
                /\ i = Len(net)
                /\ req.st = "resolved" /\ req.settles = 1 /\ req.err = NoError
                /\ net[i].answer.body.fmt = "json" =>
                      req.val.type = "object" /\ req.val.id = net[i].answer.body.id
                /\ net[i].answer.body.fmt # "json" =>
                      req.val.type = "string" /\ req.val.len = net[i].answer.body.len
                /\ pc = "done" => ret.st = "resolved" /\ ret.val = req.val

C20_Witness ==
    /\ op.name = "atlassianRequest" /\ pc = "done" /\ Len(net) = 1
    /\ net[1].answer.status = 299 /\ net[1].answer.body.fmt = "text"
    /\ ret.st = "resolved" /\ ret.val.type = "string" /\ ret.val.len = 2

----------------------------------------------------------------------------
\* Claims about the order and the pacing of the calls of a walk (SpecTree)

\* the call of a network request is over with its answer: no reissue follows
Completed(entry) == IsOk(entry.answer) \/ IsFailure(entry)

\* C21: in a run of a walk at most one network request is unanswered at any
\* time, and the request of the next node is sent only after the creation
\* call of the node before it, its reissues after 429 included, is over.
C21_OneCallInFlight ==
    op.name \in Walks =>
        \A i \in DOMAIN net :
            i < Len(net) =>
                /\ net[i].answer # Pending
                /\ net[i + 1].key # net[i].key => Completed(net[i])

C21_Witness ==
    /\ op.name = "buildPageTree" /\ op.parents = <<0, 1>> /\ Len(net) = 3
    /\ net[1].key = 1 /\ net[1].answer.status = 429
    /\ net[2].key = 1 /\ IsOk(net[2].answer)
    /\ net[3].key = 2 /\ net[3].answer = Pending

\* the first network request of each creation call
FirstRequests == {i \in DOMAIN net : net[i].retries = DefaultRetries}

\* C22: with a pacing delay, every creation call but the first of the run
\* comes after a pacing suspension taken since the call before it, whether
\* that one succeeded or failed, and no pacing suspension follows the last
\* call of the run; with delay 0 there is no pacing suspension at all.
C22_PacedBetweenCalls ==
    op.name \in Walks =>
        /\ op.delayMs = 0 => pacings = <<>>
        /\ op.delayMs > 0 =>
              /\ \A j \in FirstRequests :
                    j > 1 => \E k \in DOMAIN pacings : pacings[k] = j - 1
              /\ pc = "done" => \A k \in DOMAIN pacings : pacings[k] < Len(net)

----------------------------------------------------------------------------
\* Claims about the configuration check (SpecEnv)

\* the domain, the email or the token of a configuration object is missing
MissingIn(cfg) == cfg.domain = "" \/ cfg.email = "" \/ cfg.token = ""

\* C23: a call made without overrides, with a configuration that lacks the
\* domain, the email or the token, throws and sends no network request.
C23_ThrowsWhenAnyMissing ==
    [][(Call /\ op.overrides = "none" /\ MissingIn(config'))
          => (req'.thrown /\ net' = net)]_vars

\* C28: a call that passed the configuration check (its network request was
\* sent) settles in the end, resolved or rejected, and never twice.
C28_PassedCheckSettlesOnce ==
    /\ [](req.settles <= 1)
    /\ (req.st = "inflight") ~> (req.st \in {"resolved", "rejected"})

----------------------------------------------------------------------------
\* Claims about the configuration of an upload (SpecUpload)

\* C24: an uploadAttachment call made without a domain, or without any
\* credential, sends no network request.
C24_NoUploadRequestUnconfigured ==
    (/\ op.name = "uploadAttachment"
     /\ pc # "start"
     /\ ~Configured([NoOpts EXCEPT !.overrides = op.overrides])) => net = <<>>

----------------------------------------------------------------------------
\* Claims about a walk without configuration (SpecTreeConfig)

\* the lines by which a walk reports a configuration error as the failure
\* of a node
ConfigFailures ==
    {i \in DOMAIN console : console[i].line = "error" /\ console[i].message = ConfigError.message}

\* C25: a walk never logs a configuration error as the failure of a node,
\* and once a creation call has thrown it the walk goes no further: it
\* visits no other node and does not return.
C25_ConfigErrorEndsRun ==
    op.name \in Walks =>
        /\ ConfigFailures = {}
        /\ req.thrown => pc = "create"

----------------------------------------------------------------------------
\* Claims about a suspended call and another call (SpecCalls)

\* C27: while the first call waits on its 429 timer, the second call can
\* take its next step whatever that is: be sent, be answered or fail, or
\* have its own timer fire; and a first request of the second call is never
\* delayed by a suspension.
C27_SuspensionIsPerCall ==
    (op.name = "calls" /\ req.st = "suspended") =>
        /\ other.st = "idle" => ENABLED OtherCall
        /\ other.st = "inflight" => ENABLED OtherOnEnd /\ ENABLED OtherOnError
        /\ other.st = "suspended" => ENABLED OtherOnTimer
        /\ \A i \in RequestsOf("/other") :
              net[i].retries = MaxRetriesOf(op.retries2) => net[i].after = 0

\* the second call was sent after the 429 of the first and has resolved
\* while the first still waits
C27_Witness ==
    /\ op.name = "calls" /\ req.st = "suspended" /\ Len(net) = 2
    /\ net[1].path = "/any" /\ net[1].answer.status = 429
    /\ net[2].path = "/other" /\ IsOk(net[2].answer) /\ other.st = "resolved"

----------------------------------------------------------------------------
\* Claims about loadConfig and resetConfig (SpecConfig)

\* the loadConfig calls of the history
Loads == {i \in DOMAIN loads : loads[i].kind = "load"}

\* the loadConfig call before call j with no resetConfig in between, or 0
Earlier(j) ==
    LET before == {i \in Loads : i < j /\ \A k \in i .. j : loads[k].kind = "load"}
    IN IF before = {} THEN 0 ELSE CHOOSE i \in before : \A k \in before : k <= i

\* what the sources of call j gave for a key when the call was made
Given(j, key) ==
    Get(loads[j].seen.env,
        IF loads[j].path = Absent THEN loads[j].seen.file ELSE AltFile, key)

\* C29: a loadConfig call that follows another with no resetConfig in
\* between returns the very object of that call, whatever its configPath and
\* whatever the sources have become; the first call, and the first call
\* after a resetConfig, returns a new object built from the sources as they
\* are at that call.
C29_LoadOnce ==
    op.name = "config" =>
        \A j \in Loads :
            IF Earlier(j) # 0
            THEN loads[j].got = loads[Earlier(j)].got
            ELSE /\ \A key \in Keys : loads[j].got[key] = Given(j, key)
                 /\ \A i \in Loads : i < j => loads[i].got.id # loads[j].got.id

\* load, change of the sources and of the path, load (the same object),
\* reset, load (a new object with the new value)
C29_Witness ==
    /\ op.name = "config" /\ Len(loads) = 4
    /\ loads[1].kind = "load" /\ loads[1].path = Absent /\ loads[1].got.domain = "env"
    /\ loads[2].kind = "load" /\ loads[2].path = AltPath /\ loads[2].seen # loads[1].seen
    /\ loads[2].got = loads[1].got
    /\ loads[3].kind = "reset"
    /\ loads[4].kind = "load" /\ loads[4].got.domain = "alt" /\ loads[4].got.id = 2

\* the value the claimed precedence gives: process.env when the variable is
\* set there, else the .env file when it has the key, else the fallback
Claimed(env, file, key) ==
    IF env[key] # Unset THEN env[key]
    ELSE IF file[key] # Unset THEN file[key]
    ELSE Fallback0(key)

\* C30: every configuration object is built, key by key, from process.env
\* when the variable is set there, else from the .env file, else from the
\* fallback.
C30_EnvTakesPrecedence ==
    op.name = "config" =>
        \A j \in Loads :
            Earlier(j) = 0 =>
                \A key \in Keys :
                    loads[j].got[key] =
                        Claimed(loads[j].seen.env,
                                IF loads[j].path = Absent THEN loads[j].seen.file ELSE AltFile,
                                key)

----------------------------------------------------------------------------
\* Claims about two interleaved walks (SpecPair)

\* the two runs, whichever has the control
Runs == {Run, parked}

\* the network requests of a run, in the order they were sent
NetOf(r) == SelectSeq(net, LAMBDA entry : entry.scope = r.op.key)

\* the parent reference the creation request of node n carries in a run of
\* its own: the walk's parentId for a root, for a child the id (if any) of
\* the payload that answered its parent's creation
ParentAlone(r, mine, n) ==
    IF r.op.parents[n] = 0 THEN r.op.parentId
    ELSE LET made == {j \in DOMAIN mine : mine[j].key = r.op.parents[n] /\ IsOk(mine[j].answer)}
         IN IF made = {} THEN Absent
            ELSE IdOf(ParseOrRaw(mine[CHOOSE j \in made : TRUE].answer.body))

\* the payloads that created a resource of the run, in the order of its calls
MadeBy(r) == SelectSeq(NetOf(r), LAMBDA entry : IsOk(entry.answer))

\* C26: in two interleaved walks every request of a run is for a node of
\* its own forest, the nodes come in the order of the forest, one call at a
\* time, each with the parent reference its own run gives it, a run that
\* has returned has attempted every root of its forest, and the array a run
\* has built holds the payloads of its own creations, in order, and nothing
\* else.
C26_RunsIndependent ==
    parked # NoRun =>
        \A r \in Runs :
            LET mine == NetOf(r) IN
            /\ \A i \in DOMAIN mine :
                  /\ mine[i].key \in DOMAIN r.op.parents
                  /\ mine[i].parent = ParentAlone(r, mine, mine[i].key)
                  /\ i < Len(mine) =>
                        /\ mine[i].key <= mine[i + 1].key
                        /\ mine[i].answer # Pending
                        /\ mine[i + 1].key # mine[i].key => Completed(mine[i])
            /\ r.pc = "done" =>
                  \A n \in DOMAIN r.op.parents :
                      r.op.parents[n] = 0 => \E i \in DOMAIN mine : mine[i].key = n
            /\ Len(r.created) <= Len(MadeBy(r))
            /\ r.op.name = "buildPageTree" => r.created = <<>>
            /\ \A k \in DOMAIN r.created :
                  r.created[k] = ParseOrRaw(MadeBy(r)[k].answer.body)

\* the issue is sent, then the page; the issue is created and its child is
\* sent with the issue's id while the page is still unanswered
C26_Witness ==
    /\ parked # NoRun /\ Len(net) = 3
    /\ net[1].scope = "ACME" /\ IsOk(net[1].answer)
    /\ net[2].scope = "ENG" /\ net[2].answer = Pending /\ net[2].parent = HomeId
    /\ net[3].scope = "ACME" /\ net[3].key = 2 /\ net[3].parent = net[1].answer.body.id
    /\ net[3].parent # NoId
    /\ op.name = "createIssueTree" /\ Len(created) = 1 /\ parked.pc = "create"

----------------------------------------------------------------------------
\* Claims about the conflict fetch of createSpace and createProject (SpecCreate)

\* C31: once the create call has failed and its error was handled, the
\* fetch has been issued if and only if the create was answered 409 or with
\* a response body that holds 'already exists' anywhere, and never after a
\* failure that is no HTTP response.
C31_FetchIffConflictAnswer ==
    (CreateFailed /\ pc \in {"fetch", "done"}) =>
        /\ Gets # {} <=> (CreateAnswer.status = 409 \/ SaysAlreadyExists(CreateAnswer))
        /\ Gets # {} => CreateAnswer # Failed

\* the first network request of each fetch call
Fetches == {i \in Gets : net[i].retries = DefaultRetries}

\* the error a call rejects with when `entry` is the request that ended it
ErrorOf(entry) ==
    IF entry.answer = Failed THEN TransportError
    ELSE HttpError(entry.answer.status, entry.answer.body)

\* C32: the fetch is called at most once, after a create request that ended
\* the create call with an error, and no create request follows a fetch
\* request; when the fetch fails the call rejects with the fetch's error.
C32_OneFetchAfterFailedCreate ==
    op.name \in Creators =>
        /\ Cardinality(Fetches) <= 1
        /\ \A g \in Gets :
              /\ \E i \in Posts : i < g /\ IsFailure(net[i])
              /\ \A i \in Posts : i < g
        /\ (pc = "done" /\ Gets # {} /\ IsFailure(net[Max(Gets)])) =>
              /\ Max(Gets) = Len(net)
              /\ ret.st = "rejected"
              /\ ret.err = ErrorOf(net[Max(Gets)])

\* the create is answered 409, the fetch 500: the call rejects with the 500
C32_Witness ==
    /\ op.name = "createProject" /\ pc = "done" /\ Len(net) = 2
    /\ net[1].method = "POST" /\ net[1].answer.status = 409
    /\ net[2].method = "GET" /\ net[2].answer.status = 500
    /\ ret.st = "rejected" /\ ret.err.statusCode = 500

----------------------------------------------------------------------------
\* Claims about the array createIssueTree returns (SpecTree)

\* C33: the array of createIssueTree holds, at any moment, the payloads of
\* the creation calls that have succeeded, in the order of the calls, the
\* last one at most still to be pushed; when the walk returns it holds all
\* of them and nothing else, the entry of a parent stays when a child of it
\* fails, and every later sibling of a failed child has been attempted.
C33_ArrayOfSuccesses ==
    op.name = "createIssueTree" =>
        /\ Len(created) <= Len(OkAnswers)
        /\ Len(created) >= Len(OkAnswers) - 1
        /\ \A k \in DOMAIN created : created[k] = ParseOrRaw(OkAnswers[k].answer.body)
        /\ pc = "done" =>
              /\ Len(created) = Len(OkAnswers)
              /\ ret.val.len = Len(OkAnswers)
              /\ \A n \in Nodes, s \in Nodes :
                    (CallFailed(n) /\ op.parents[n] # 0 /\ s > n
                        /\ op.parents[s] = op.parents[n]) => s \in Attempted

\* an issue with two children: the first child fails, the second is
\* created after it; the array holds the issue and the second child
C33_Witness ==
    /\ op.name = "createIssueTree" /\ op.parents = <<0, 1, 1>> /\ pc = "done"
    /\ Succeeded(1) /\ CallFailed(2) /\ net[2].answer.status = 500 /\ Succeeded(3)
    /\ Len(created) = 2
    /\ created[1].type = "object" /\ created[1].id = net[1].answer.body.id
    /\ created[2].type = "object" /\ created[2].id = net[3].answer.body.id

----------------------------------------------------------------------------
\* Claims about the labels of a page (SpecLabels)

LabelRequests == {i \in DOMAIN net : net[i].path = LabelPath}

PageRequests == {i \in DOMAIN net : net[i].path = PagePath}

\* the page request that created node n
Creation(n) == {j \in PageRequests : net[j].key = n /\ IsOk(net[j].answer)}

\* node n had its label call end with an error
LabelFailed(n) == \E i \in LabelRequests : net[i].key = n /\ IsFailure(net[i])

\* C34: a label request is sent for a page with labels only, after the
\* request that created the page and for the id of that page; whatever the
\* label request yields, the page is logged as created and never as failed,
\* its children are sent with the page's id as parent, and after a failed
\* label call the walk still attempts every child of the page and returns.
C34_LabelFailureAbsorbed ==
    (op.name = "buildPageTree" /\ op.labelled # {}) =>
        /\ \A i \in LabelRequests :
              /\ net[i].key \in op.labelled
              /\ \E j \in Creation(net[i].key) :
                    j < i /\ net[i].parent = IdOf(ParseOrRaw(net[j].answer.body))
        /\ \A i \in PageRequests :
              op.parents[net[i].key] # 0 =>
                  \E j \in Creation(op.parents[net[i].key]) :
                      j < i /\ net[i].parent = IdOf(ParseOrRaw(net[j].answer.body))
        /\ \A n \in Nodes :
              LabelFailed(n) =>
                  /\ Cardinality(Logged("created", n)) = 1
                  /\ Logged("error", n) = {}
                  /\ pc = "done" =>
                        /\ ret.st = "resolved"
                        /\ \A c \in Nodes : op.parents[c] = n => c \in Attempted

\* the page is created, its label request is answered 500, and its child
\* page is then created under the page's id
C34_Witness ==
    /\ op.name = "buildPageTree" /\ op.parents = <<0, 1>> /\ op.labelled = {1}
    /\ pc = "done" /\ Len(net) = 3
    /\ net[1].path = PagePath /\ IsOk(net[1].answer) /\ net[1].answer.body.fmt = "json"
    /\ net[2].path = LabelPath /\ net[2].answer.status = 500
    /\ net[3].path = PagePath /\ net[3].key = 2 /\ IsOk(net[3].answer)
    /\ net[3].parent = net[1].answer.body.id

----------------------------------------------------------------------------
\* Claims about a change of configuration during a suspension (SpecEnv)

\* C35: all network requests of a call made without overrides go to one
\* host with one Authorization value, and the call is never left without
\* anything to settle it, whatever resetConfig and process.env do meanwhile.
C35_ReissueKeepsTarget ==
    (op.name = "env" /\ op.overrides = "none") =>
        /\ \A i \in DOMAIN net, j \in DOMAIN net :
              net[i].host = net[j].host /\ net[i].auth = net[j].auth
        /\ req.st # "lost"

----------------------------------------------------------------------------
\* Claims about updatePage (SpecUpdate)

\* the updatePage calls of the program
Calls == IF parked = NoRun THEN {Run} ELSE Runs

\* the GET requests of a call that were answered with a success
ReadsOf(r) == SelectSeq(NetOf(r), LAMBDA entry : entry.method = "GET" /\ IsOk(entry.answer))

\* what a call read: the parsed answer of its GET, undefined before it
ReadOf(r) == IF ReadsOf(r) = <<>> THEN Undefined ELSE ParseOrRaw(ReadsOf(r)[1].answer.body)

\* the PUT requests of a call, reissues included
PutsOf(r) == SelectSeq(NetOf(r), LAMBDA entry : entry.method = "PUT")

\* C36: the first request of an updatePage call is the GET by space key and
\* title; a call that read no match sends no PUT and returns null; a call
\* that read a match makes one PUT call, for that page and with the version
\* number read plus one (reissues after a 429 included); so two calls that
\* read the same version number send the same version number.
C36_WritesVersionReadPlusOne ==
    /\ \A r \in Calls :
          /\ NetOf(r) # <<>> =>
                /\ NetOf(r)[1].method = "GET"
                /\ NetOf(r)[1].path = ContentQuery
                /\ NetOf(r)[1].key = Title
          /\ NoMatch(ReadOf(r)) => PutsOf(r) = <<>>
          /\ (r.pc = "done" /\ ReadsOf(r) # <<>> /\ NoMatch(ReadOf(r))) =>
                r.ret = [st |-> "resolved", val |-> Null, err |-> NoError]
          /\ \A i \in DOMAIN PutsOf(r) :
                /\ PutsOf(r)[i].key = VersionOf(ReadOf(r)) + 1
                /\ PutsOf(r)[i].path = ContentPath
                /\ PutsOf(r)[i].parent = HomeId
          /\ Cardinality({i \in DOMAIN PutsOf(r) : PutsOf(r)[i].retries = DefaultRetries})
                = IF ~NoMatch(ReadOf(r)) /\ r.pc \in {"write", "done"} THEN 1 ELSE 0
    /\ \A r1 \in Calls, r2 \in Calls :
          VersionOf(ReadOf(r1)) = VersionOf(ReadOf(r2)) =>
              \A i \in DOMAIN PutsOf(r1), j \in DOMAIN PutsOf(r2) :
                  PutsOf(r1)[i].key = PutsOf(r2)[j].key

\* two calls both read version 1 before either PUT was sent, both send
\* version 2; the backend accepts one PUT and answers the other 409
C36_Witness ==
    /\ parked # NoRun
    /\ Len(net) = 4
    /\ net[1].method = "GET" /\ net[2].method = "GET"
    /\ net[1].scope # net[2].scope
    /\ net[1].answer.body.id = BaseVersion /\ net[2].answer.body.id = BaseVersion
    /\ net[3].method = "PUT" /\ net[4].method = "PUT"
    /\ net[3].scope # net[4].scope
    /\ net[3].key = BaseVersion + 1 /\ net[4].key = BaseVersion + 1
    /\ {net[3].answer.status, net[4].answer.status} = {200, 409}
    /\ \A r \in Runs : r.pc = "done"

----------------------------------------------------------------------------
\* Claims about uploadScreenshotsToConfluence (SpecShots)

\* the target page was found: getPage's request was answered with a match
PageFound ==
    \E i \in DOMAIN net :
        /\ net[i].path = PageQuery
        /\ IsOk(net[i].answer)
        /\ ~NoMatch(ParseOrRaw(net[i].answer.body))

\* the requests of the uploads
UploadRequests == {i \in DOMAIN net : net[i].path = UploadPath}

\* the requests of the page update: the GET and the PUT of updatePage
UpdateRequests == {i \in DOMAIN net : net[i].path \in {ContentQuery, ContentPath}}

\* the screenshots whose upload was attempted, in the order of the attempts
AttemptedShots == [i \in DOMAIN LinesOf("uploading") |-> LinesOf("uploading")[i].key]

\* the screenshots that were uploaded
UploadedShots == {n \in DOMAIN op.shots : Logged("uploaded", n) # {}}

\* the updatePage call was made
UpdateCalled == pc \in {"read", "write", "updated"} \/ UpdateRequests # {}

\* C37: without the target page there is no upload and no page update; with
\* it the uploads are attempted for every screenshot in the order of the
\* list, whether or not earlier ones failed; updatePage is called once, after
\* every upload was attempted and has ended, and the body it is given embeds
\* only screenshots that were uploaded.
C37_UpdateEmbedsUploadedOnly ==
    op.name = "uploadScreenshots" =>
        /\ ~PageFound =>
              /\ UploadRequests = {}
              /\ UpdateRequests = {}
              /\ LinesOf("uploading") = <<>>
        /\ \A i \in DOMAIN AttemptedShots : AttemptedShots[i] = i
        /\ Len(AttemptedShots) <= Len(op.shots)
        /\ (PageFound /\ pc = "done") => Len(AttemptedShots) = Len(op.shots)
        /\ Cardinality({i \in DOMAIN net : /\ net[i].path = ContentQuery
                                           /\ net[i].retries = DefaultRetries}) <= 1
        /\ UpdateCalled =>
              /\ Len(AttemptedShots) = Len(op.shots)
              /\ \A n \in DOMAIN op.shots : Logged("uploaded", n) # {} \/ Logged("failed", n) # {}
              /\ \A i \in UploadRequests, j \in UpdateRequests : i < j
              /\ stack = <<stack[1]>>
              /\ stack[1] \subseteq UploadedShots

====
